---- MODULE Spec2Model ----
(***************************************************************************)
(* Model of the gin JWT middleware of the douyin API service (package      *)
(* myjwt): credential lookup, token verification, claim validation, the    *)
(* FilteredURL bypass, login / token generation and refresh.               *)
(*                                                                         *)
(* Time is counted in whole Unix seconds.  One request is handled within   *)
(* one reading of mw.TimeFunc.  Spec and SpecIssuer handle one request at  *)
(* a time and return to "idle"; SpecNew starts from the configuration as   *)
(* main() wrote it and runs New; SpecSession follows the token a client    *)
(* holds from login through refreshes; SpecCookie varies the cookie        *)
(* settings; SpecApi runs the API handlers PublishVideo and FavoriteByUser *)
(* behind the middleware; SpecConcurrent runs the handlers of several      *)
(* requests in interleaved steps.                                          *)
(***************************************************************************)
EXTENDS Integers, Sequences, FiniteSets, TLC

\* mw: the GinJWTMiddleware struct; now: the clock; ctx: the gin context of the
\* request being handled; client: the token a client holds; inflight: the gin
\* contexts of the requests handled concurrently
VARIABLES mw, now, ctx, client, inflight

vars == <<mw, now, ctx, client, inflight>>

-----------------------------------------------------------------------------
(* Bounds of the model *)

\* the clock mw.TimeFunc().Unix() ranges over 1..MaxTime
MaxTime == 4
\* the exp / nbf time stamp carried by presented tokens
ClaimTime == 2
\* the orig_iat time stamp carried by presented tokens
IssuedAt == 1
\* mw.Timeout in seconds
TimeoutSecs == 2
\* mw.MaxRefresh ranges over 0..MaxRefreshSecs
MaxRefreshSecs == 2

-----------------------------------------------------------------------------
(* Go values held in a claim set (map[string]interface{}) *)

Nil == [t |-> "nil", s |-> "", n |-> 0]
Str(s) == [t |-> "string", s |-> s, n |-> 0]
Int64(n) == [t |-> "int64", s |-> "", n |-> n]
Float64(n) == [t |-> "float64", s |-> "", n |-> n]

\* JSON values of the claim segment of a compact token
JNum(n) == [t |-> "number", s |-> "", n |-> n]
JStr(s) == [t |-> "string", s |-> s, n |-> 0]

\* json.Marshal of a claim value
Encode(v) == IF v.t \in {"int64", "float64"} THEN JNum(v.n) ELSE JStr(v.s)

\* json.Unmarshal into interface{}: every number becomes a float64
Decode(j) == IF j.t = "number" THEN Float64(j.n) ELSE Str(j.s)

EncodeClaims(c) == [k \in DOMAIN c |-> Encode(c[k])]

DecodeClaims(w) == [k \in DOMAIN w |-> Decode(w[k])]

\* the empty (or nil) claim map
NoClaims == [k \in {} |-> Nil]

\* claims[k] of a Go map: nil when the key is absent
Get(c, k) == IF k \in DOMAIN c THEN c[k] ELSE Nil

\* the map c after c[k] = v
Put(c, k, v) == [x \in DOMAIN c \cup {k} |-> IF x = k THEN v ELSE c[x]]

-----------------------------------------------------------------------------
(* Errors *)

NoErr == [kind |-> "nil", text |-> "", flags |-> {}]

Sentinel(text) == [kind |-> "sentinel", text |-> text, flags |-> {}]

ErrForbidden == Sentinel("you don't have permission to access this resource")
ErrMissingAuthenticatorFunc == Sentinel("ginJWTMiddleware.Authenticator func is undefined")
ErrMissingLoginValues == Sentinel("missing Username or Password")
ErrFailedAuthentication == Sentinel("incorrect Username or Password")
ErrFailedTokenCreation == Sentinel("failed to create JWT Token")
ErrExpiredToken == Sentinel("token is expired")
ErrEmptyAuthHeader == Sentinel("auth header is empty")
ErrMissingExpField == Sentinel("missing exp field")
ErrWrongFormatOfExp == Sentinel("exp must be float64 format")
ErrInvalidAuthHeader == Sentinel("auth header is invalid")
ErrEmptyQueryToken == Sentinel("query token is empty")
ErrEmptyCookieToken == Sentinel("cookie token is empty")
ErrEmptyParamToken == Sentinel("parameter token is empty")
ErrEmptyPostFormToken == Sentinel("form post token is empty")
ErrInvalidSigningAlgorithm == Sentinel("invalid signing algorithm")
ErrMissingSecretKey == Sentinel("secret key is required")
ErrNoPrivKeyFile == Sentinel("private key file unreadable")
ErrNoPubKeyFile == Sentinel("public key file unreadable")
ErrInvalidPrivKey == Sentinel("private key invalid")
ErrInvalidPubKey == Sentinel("public key invalid")

\* *jwt.ValidationError: Errors is the set of flags, Error() the text of Inner
ValidationError(flags, text) == [kind |-> "validation", text |-> text, flags |-> flags]

\* HTTPStatusMessageFunc (default): e.Error()
HTTPStatusMessageFunc(e) == e.text

-----------------------------------------------------------------------------
(* Compact tokens as they travel in a request *)

\* the empty string
EmptyToken == [kind |-> "empty", alg |-> "", sig |-> "", claims |-> NoClaims]

\* a non-empty string that is not three base64 segments
GarbageToken == [kind |-> "garbage", alg |-> "", sig |-> "", claims |-> NoClaims]

\* header.claims.signature: alg is the header's algorithm, sig the key that
\* made the signature, claims the JSON claim segment
Jwt(alg, sig, claims) == [kind |-> "jwt", alg |-> alg, sig |-> sig, claims |-> claims]

IsHMAC(alg) == alg \in {"HS256", "HS384", "HS512"}

IsRSA(alg) == alg \in {"RS256", "RS384", "RS512"}

-----------------------------------------------------------------------------
(* Configuration (GinJWTMiddleware after MiddlewareInit) *)

usingPublicKeyAlgo(m) == m.SigningAlgorithm \in {"RS256", "RS512", "RS384"}

\* MiddlewareInit's last step: the key material check
MiddlewareInitError(m) ==
  IF m.KeyFunc THEN NoErr
  ELSE IF usingPublicKeyAlgo(m)
       THEN IF m.privKey = "nil" THEN Sentinel("private key invalid")
            ELSE IF m.pubKey = "nil" THEN Sentinel("public key invalid")
            ELSE NoErr
       ELSE IF m.Key = "nil" THEN Sentinel("secret key is required") ELSE NoErr

-----------------------------------------------------------------------------
(* Credential locator *)

\* A header value after strings.SplitN(authHeader, " ", 2): n = 0 is the empty
\* string, n = 1 a value with no space, n = 2 the pair head, tok
Header(n, head, tok) == [n |-> n, head |-> head, tok |-> tok]

NoHeader == Header(0, "", EmptyToken)

Located(token, err) == [token |-> token, err |-> err]

jwtFromHeader(m, req) ==
  IF req.header.n = 0 THEN Located(EmptyToken, ErrEmptyAuthHeader)
  ELSE IF ~(req.header.n = 2 /\ req.header.head = m.TokenHeadName)
       THEN Located(EmptyToken, ErrInvalidAuthHeader)
       ELSE Located(req.header.tok, NoErr)

jwtFromQuery(req) ==
  IF req.query = EmptyToken THEN Located(EmptyToken, ErrEmptyQueryToken)
  ELSE Located(req.query, NoErr)

jwtFromCookie(req) ==
  IF req.cookie = EmptyToken THEN Located(EmptyToken, ErrEmptyCookieToken)
  ELSE Located(req.cookie, NoErr)

jwtFromParam(req) ==
  IF req.param = EmptyToken THEN Located(EmptyToken, ErrEmptyParamToken)
  ELSE Located(req.param, NoErr)

jwtFromPostForm(req) ==
  IF req.postform = EmptyToken THEN Located(EmptyToken, ErrEmptyPostFormToken)
  ELSE Located(req.postform, NoErr)

\* one iteration of ParseToken's loop for the source kind k
FromSource(m, req, k, sofar) ==
  CASE k = "header" -> jwtFromHeader(m, req)
    [] k = "query" -> jwtFromQuery(req)
    [] k = "cookie" -> jwtFromCookie(req)
    [] k = "param" -> jwtFromParam(req)
    [] k = "postform" -> jwtFromPostForm(req)
    [] OTHER -> sofar

\* LookupLoop that consults every listed source, the last one winning
RECURSIVE LookupLoop_NoBreak(_, _, _, _)
LookupLoop_NoBreak(m, req, methods, sofar) ==
  IF methods = <<>> THEN sofar
  ELSE LookupLoop_NoBreak(m, req, Tail(methods), FromSource(m, req, Head(methods), sofar))

\* LookupLoop that stops at the first source that fails, keeping its error
RECURSIVE LookupLoop_FirstError(_, _, _, _)
LookupLoop_FirstError(m, req, methods, sofar) ==
  IF methods = <<>> \/ sofar.token # EmptyToken \/ sofar.err # NoErr THEN sofar
  ELSE LookupLoop_FirstError(m, req, Tail(methods), FromSource(m, req, Head(methods), sofar))

\* ParseToken's loop over the TokenLookup methods: it stops once a token is
\* held, and each source consulted overwrites both token and err
RECURSIVE LookupLoop(_, _, _, _)
LookupLoop(m, req, methods, sofar) ==
  IF methods = <<>> \/ sofar.token # EmptyToken THEN sofar
  ELSE LookupLoop(m, req, Tail(methods), FromSource(m, req, Head(methods), sofar))

Locate(m, req) == LookupLoop(m, req, m.TokenLookup, Located(EmptyToken, NoErr))

-----------------------------------------------------------------------------
(* Token codec: jwt.Parse with the middleware's key function, and signing *)

\* the key an external KeyFunc callback resolves: the deployment's key for the
\* configured family, whatever algorithm the token header declares
KeyFuncKey(m) == IF usingPublicKeyAlgo(m) THEN "pub" ELSE "secret"

\* SigningMethod.Verify: HMAC wants the byte key that signed, RSA the public
\* half of the private key that signed
VerifyOK(alg, sig, key) ==
  IF IsHMAC(alg) THEN key \in {"secret", "empty"} /\ sig = key
  ELSE key = "pub" /\ sig = "priv"

VerifyText(alg, key) ==
  IF IsHMAC(alg)
  THEN IF key \in {"secret", "empty"} THEN "signature is invalid"
       ELSE "key is of invalid type"
  ELSE IF key = "pub" THEN "crypto/rsa: verification error"
       ELSE "key is of invalid type"

\* MapClaims.VerifyExpiresAt(now, false)
VerifyExpiresAt(c, t) ==
  "exp" \notin DOMAIN c
    \/ (c["exp"].t = "float64" /\ (c["exp"].n = 0 \/ t <= c["exp"].n))

\* MapClaims.VerifyIssuedAt(now, false)
VerifyIssuedAt(c, t) ==
  "iat" \notin DOMAIN c
    \/ (c["iat"].t = "float64" /\ (c["iat"].n = 0 \/ t >= c["iat"].n))

\* MapClaims.VerifyNotBefore(now, false)
VerifyNotBefore(c, t) ==
  "nbf" \notin DOMAIN c
    \/ (c["nbf"].t = "float64" /\ (c["nbf"].n = 0 \/ t >= c["nbf"].n))

\* MapClaims.Valid: the flags it raises at library time t
ClaimFlags(c, t) ==
  (IF VerifyExpiresAt(c, t) THEN {} ELSE {"Expired"})
    \cup (IF VerifyIssuedAt(c, t) THEN {} ELSE {"IssuedAt"})
    \cup (IF VerifyNotBefore(c, t) THEN {} ELSE {"NotValidYet"})

\* ... and the text of the Inner error it leaves (the last one set)
ClaimText(flags) ==
  IF "NotValidYet" \in flags THEN "token is not valid yet"
  ELSE IF "IssuedAt" \in flags THEN "token used before issued"
  ELSE IF "Expired" \in flags THEN "token is expired"
  ELSE ""

\* result of ParseToken / jwt.Parse: nonNil says whether the *jwt.Token is
\* non-nil, claims is token.Claims, jwtToken whether c.Set("JWT_TOKEN") ran
Parsed(nonNil, claims, err, jwtToken) ==
  [nonNil |-> nonNil, claims |-> claims, err |-> err, jwtToken |-> jwtToken]

\* the library clock jwt.TimeFunc (time.Now), against mw.TimeFunc
JwtNow(m, t) == t - m.TimeFuncAhead

\* jwt.Parse(token, keyfunc) as called by ParseToken.  sigFirst tells the
\* library release: since v4.5 the signature is verified before the claims are
\* validated; before, the claims were validated first and the flags added up.
JwtParse(m, tok, t, sigFirst) ==
  IF tok.kind # "jwt"
  THEN Parsed(FALSE, NoClaims,
              ValidationError({"Malformed"}, "token contains an invalid number of segments"),
              FALSE)
  ELSE
    LET c == DecodeClaims(tok.claims)
        algOK == m.KeyFunc \/ tok.alg = m.SigningAlgorithm
        key == IF m.KeyFunc THEN KeyFuncKey(m)
               ELSE IF usingPublicKeyAlgo(m) THEN "pub" ELSE m.Key
        saved == ~m.KeyFunc /\ algOK /\ ~usingPublicKeyAlgo(m)
        cflags == ClaimFlags(c, JwtNow(m, t))
        sigOK == VerifyOK(tok.alg, tok.sig, key)
        flags == IF sigOK THEN cflags
                 ELSE IF sigFirst THEN {"SignatureInvalid"}
                 ELSE cflags \cup {"SignatureInvalid"}
        text == IF sigOK THEN ClaimText(cflags) ELSE VerifyText(tok.alg, key)
    IN IF ~algOK
       THEN Parsed(TRUE, c,
                   ValidationError({"Unverifiable"}, ErrInvalidSigningAlgorithm.text),
                   FALSE)
       ELSE IF flags = {} THEN Parsed(TRUE, c, NoErr, saved)
       ELSE Parsed(TRUE, c, ValidationError(flags, text), saved)

\* ParseToken: locate, then verify
ParseToken(m, req, t, sigFirst) ==
  LET loc == Locate(m, req)
  IN IF loc.err # NoErr THEN Parsed(FALSE, NoClaims, loc.err, FALSE)
     ELSE JwtParse(m, loc.token, t, sigFirst)

\* ParseTokenString: jwt.Parse of a token string; its key closure saves no
\* JWT_TOKEN
ParseTokenString(m, tok, t, sigFirst) ==
  [JwtParse(m, tok, t, sigFirst) EXCEPT !.jwtToken = FALSE]

\* signedString: the outcome is "ok" with the compact token, or "panic" when
\* rsa signing dereferences the nil private key
Signed(outcome, token) == [outcome |-> outcome, token |-> token]

signedString(m, claims) ==
  IF usingPublicKeyAlgo(m)
  THEN IF m.privKey = "nil" THEN Signed("panic", EmptyToken)
       ELSE Signed("ok", Jwt(m.SigningAlgorithm, "priv", EncodeClaims(claims)))
  ELSE Signed("ok", Jwt(m.SigningAlgorithm,
                        IF m.Key = "nil" THEN "empty" ELSE "secret",
                        EncodeClaims(claims)))

-----------------------------------------------------------------------------
(* Policy gate: the FilteredURL prefixes *)

\* strings.Split(s, ","), on sequences of characters
RECURSIVE SplitComma(_, _, _)
SplitComma(s, cur, acc) ==
  IF s = <<>> THEN Append(acc, cur)
  ELSE IF Head(s) = "," THEN SplitComma(Tail(s), <<>>, Append(acc, cur))
  ELSE SplitComma(Tail(s), Append(cur, Head(s)), acc)

RECURSIVE TrimLeft(_)
TrimLeft(s) == IF s # <<>> /\ Head(s) = " " THEN TrimLeft(Tail(s)) ELSE s

RECURSIVE TrimRight(_)
TrimRight(s) ==
  IF s # <<>> /\ s[Len(s)] = " " THEN TrimRight(SubSeq(s, 1, Len(s) - 1)) ELSE s

\* strings.TrimSpace
TrimSpace(s) == TrimRight(TrimLeft(s))

\* strings.HasPrefix
HasPrefix(s, prefix) ==
  Len(prefix) <= Len(s) /\ SubSeq(s, 1, Len(prefix)) = prefix

\* the flag computed by middlewareImpl: the path starts with a listed prefix
Filtered(m, path) ==
  LET FilteredURLs == SplitComma(m.FilteredURL, <<>>, <<>>)
  IN \E i \in 1..Len(FilteredURLs) : HasPrefix(path, TrimSpace(FilteredURLs[i]))

-----------------------------------------------------------------------------
(* The gin context of one request, and what the handlers leave in it *)

\* a request: its URL path and the value of each lookup source
Request(path, header, query, cookie, param, postform) ==
  [path |-> path, header |-> header, query |-> query, cookie |-> cookie,
   param |-> param, postform |-> postform]

NoRequest == Request(<<>>, NoHeader, EmptyToken, EmptyToken, EmptyToken, EmptyToken)

\* handler: the handler that ran; code, message: the arguments of the last
\* Unauthorized / response call; unauthorized, next: the number of calls of
\* mw.Unauthorized and c.Next; payload, identity, jwtTokenSet: the context keys
\* JWT_PAYLOAD, mw.IdentityKey and JWT_TOKEN; err, token, expire: what
\* RefreshToken / TokenGenerator returned or LoginHandler responded; given: the
\* claims PayloadFunc returned; cookieSet, cookieValue, cookieMaxAge: the
\* cookie c.SetCookie wrote; downstream: the number of runs of the handlers
\* that follow the middleware in the chain; parsed, claims: whether
\* ParseTokenString returned a token, and that token's Claims; query: the
\* URL query parameters the API handlers read; env: what the upload and the
\* RPC service answer to the handler; responses: the JSON responses written;
\* rpcCalls: the requests sent to the RPC service

\* c.Query(key) of a request without query parameters: the empty string
NoQuery == [title |-> <<>>, user_id |-> <<>>, video_id |-> <<>>, action_type |-> <<>>]

\* c.FormFile, c.SaveUploadedFile and the RPC call all succeed
NoFailure == [formFile |-> NoErr, save |-> NoErr, rpc |-> NoErr]

Idle ==
  [handler |-> "idle", req |-> NoRequest, panicked |-> FALSE, code |-> 0, message |-> "",
   unauthorized |-> 0, next |-> 0,
   aborted |-> FALSE, wwwAuthenticate |-> FALSE, authorization |-> FALSE,
   payloadSet |-> FALSE, payload |-> NoClaims, identitySet |-> FALSE,
   identity |-> Nil, jwtTokenSet |-> FALSE, err |-> NoErr, token |-> EmptyToken,
   expire |-> 0, cookieSet |-> FALSE, cookieValue |-> EmptyToken, cookieMaxAge |-> 0,
   given |-> NoClaims,
   downstream |-> 0, parsed |-> FALSE, claims |-> NoClaims,
   query |-> NoQuery, env |-> NoFailure, responses |-> <<>>, rpcCalls |-> <<>>]

\* unauthorized that never calls c.Abort()
unauthorized_NoAbort(m, c, code, message) ==
  [c EXCEPT !.wwwAuthenticate = TRUE,
            !.unauthorized = c.unauthorized + 1,
            !.code = code,
            !.message = message]

\* mw.unauthorized(c, code, message)
unauthorized(m, c, code, message) ==
  [c EXCEPT !.wwwAuthenticate = TRUE,
            !.aborted = (c.aborted \/ ~m.DisabledAbort),
            !.unauthorized = c.unauthorized + 1,
            !.code = code,
            !.message = message]

\* the default IdentityHandler: ExtractClaims(c)[mw.IdentityKey]
IdentityHandler(m, c) ==
  IF c.payloadSet THEN Get(c.payload, m.IdentityKey) ELSE Nil

\* mw.Authorizator: the default permits everybody, "adminOnly" is a
\* deployment's callback that permits the identity "admin" alone
Authorizator(m, identity) ==
  IF m.Authorizator = "default" THEN TRUE ELSE identity = Str("admin")

\* GetClaimsFromJWT's effect on the context: JWT_TOKEN saved by the key
\* function, and the Authorization response header
AfterGetClaims(m, c, p) ==
  [c EXCEPT !.jwtTokenSet = p.jwtToken,
            !.authorization = (p.err = NoErr /\ m.SendAuthorization /\ p.jwtToken)]

\* PublishAndAuthorize that stores the claims but not the identity
PublishAndAuthorize_NoIdentity(m, c, claims, flag) ==
  LET c1 == [c EXCEPT !.payloadSet = TRUE, !.payload = claims]
      identity == IdentityHandler(m, c1)
  IN IF ~Authorizator(m, identity) /\ ~flag
     THEN unauthorized(m, c1, 403, HTTPStatusMessageFunc(ErrForbidden))
     ELSE [c1 EXCEPT !.next = c1.next + 1]

\* middlewareImpl from "c.Set("JWT_PAYLOAD", claims)" on
PublishAndAuthorize(m, c, claims, flag) ==
  LET c1 == [c EXCEPT !.payloadSet = TRUE, !.payload = claims]
      identity == IdentityHandler(m, c1)
      c2 == IF identity # Nil
            THEN [c1 EXCEPT !.identitySet = TRUE, !.identity = identity]
            ELSE c1
  IN IF ~Authorizator(m, identity) /\ ~flag
     THEN unauthorized(m, c2, 403, HTTPStatusMessageFunc(ErrForbidden))
     ELSE [c2 EXCEPT !.next = c2.next + 1]

\* ValidateClaims with the expiry check skipped on filtered paths, like the
\* checks before it
ValidateClaims_ExpiryFiltered(m, c, claims, flag, t) ==
  LET exp == Get(claims, "exp")
  IN IF exp = Nil /\ ~flag
     THEN unauthorized(m, c, 400, HTTPStatusMessageFunc(ErrMissingExpField))
     ELSE IF exp.t # "float64" /\ ~flag
     THEN unauthorized(m, c, 400, HTTPStatusMessageFunc(ErrWrongFormatOfExp))
     ELSE IF exp # Nil /\ exp.t # "float64"
     THEN [c EXCEPT !.panicked = TRUE]
     ELSE IF exp # Nil /\ exp.n < t /\ ~flag
     THEN unauthorized(m, c, 401, HTTPStatusMessageFunc(ErrExpiredToken))
     ELSE PublishAndAuthorize(m, c, claims, flag)

\* ValidateClaims that takes a token for expired in the second of its exp
ValidateClaims_ExpiredAtExp(m, c, claims, flag, t) ==
  LET exp == Get(claims, "exp")
  IN IF exp = Nil /\ ~flag
     THEN unauthorized(m, c, 400, HTTPStatusMessageFunc(ErrMissingExpField))
     ELSE IF exp.t # "float64" /\ ~flag
     THEN unauthorized(m, c, 400, HTTPStatusMessageFunc(ErrWrongFormatOfExp))
     ELSE IF exp # Nil /\ exp.t # "float64"
     THEN [c EXCEPT !.panicked = TRUE]
     ELSE IF exp # Nil /\ exp.n <= t
     THEN unauthorized(m, c, 401, HTTPStatusMessageFunc(ErrExpiredToken))
     ELSE PublishAndAuthorize(m, c, claims, flag)

\* middlewareImpl from "if claims["exp"] == nil" on
ValidateClaims(m, c, claims, flag, t) ==
  LET exp == Get(claims, "exp")
  IN IF exp = Nil /\ ~flag
     THEN unauthorized(m, c, 400, HTTPStatusMessageFunc(ErrMissingExpField))
     ELSE IF exp.t # "float64" /\ ~flag
     THEN unauthorized(m, c, 400, HTTPStatusMessageFunc(ErrWrongFormatOfExp))
     ELSE IF exp # Nil /\ exp.t # "float64"
     THEN [c EXCEPT !.panicked = TRUE]
     ELSE IF exp # Nil /\ exp.n < t
     THEN unauthorized(m, c, 401, HTTPStatusMessageFunc(ErrExpiredToken))
     ELSE PublishAndAuthorize(m, c, claims, flag)

\* middlewareImpl without the rejection of a missing credential on a path
\* that is not filtered
middlewareImpl_NoFlagCheck(m, c, req, t, sigFirst) ==
  LET p == ParseToken(m, req, t, sigFirst)
      claims == IF p.err # NoErr THEN NoClaims ELSE p.claims
      c0 == AfterGetClaims(m, c, p)
      flag == Filtered(m, req.path)
  IN IF p.err # NoErr /\ p.err.text # "form post token is empty"
     THEN unauthorized(m, c0, 401, HTTPStatusMessageFunc(p.err))
     ELSE ValidateClaims(m, c0, claims, flag, t)

\* middlewareImplFrom whose rejections of a failed GetClaimsFromJWT lack the
\* return: the claim checks go on after mw.unauthorized
middlewareImplFrom_NoReturn(m, c0, p, path, t) ==
  LET claims == IF p.err # NoErr THEN NoClaims ELSE p.claims
      flag == Filtered(m, path)
  IN IF p.err # NoErr /\ (p.err.text # "form post token is empty" \/ ~flag)
     THEN ValidateClaims(m, unauthorized(m, c0, 401, HTTPStatusMessageFunc(p.err)),
                         claims, flag, t)
     ELSE ValidateClaims(m, c0, claims, flag, t)

\* middlewareImpl after "claims, err := mw.GetClaimsFromJWT(c)": p is what
\* ParseToken returned, c0 the context GetClaimsFromJWT left, t the time read
middlewareImplFrom(m, c0, p, path, t) ==
  LET claims == IF p.err # NoErr THEN NoClaims ELSE p.claims
      flag == Filtered(m, path)
  IN IF p.err # NoErr /\ p.err.text # "form post token is empty"
     THEN unauthorized(m, c0, 401, HTTPStatusMessageFunc(p.err))
     ELSE IF p.err # NoErr /\ ~flag
     THEN unauthorized(m, c0, 401, HTTPStatusMessageFunc(p.err))
     ELSE ValidateClaims(m, c0, claims, flag, t)

\* middlewareImpl: the context c after the middleware handled req at time t
middlewareImpl(m, c, req, t, sigFirst) ==
  LET p == ParseToken(m, req, t, sigFirst)
  IN middlewareImplFrom(m, AfterGetClaims(m, c, p), p, req.path, t)

\* the rest of the gin chain once the middleware returned: the handlers after
\* it ran inside its c.Next(), or run now as the engine goes on along the
\* chain, unless c.Abort() was called
HandlersChain(c) ==
  IF c.panicked THEN c
  ELSE [c EXCEPT !.downstream = IF c.next > 0 \/ ~c.aborted THEN 1 ELSE 0]

\* MiddlewareFunc as one gin.HandlerFunc of the chain
MiddlewareFunc(m, c, req, t, sigFirst) ==
  HandlersChain(middlewareImpl(m, c, req, t, sigFirst))

-----------------------------------------------------------------------------
(* Session issuer: LoginHandler, TokenGenerator, RefreshToken *)

\* c.SetCookie(mw.CookieName, value, maxage, ...)
SetCookie(c, value, maxage) ==
  [c EXCEPT !.cookieSet = TRUE, !.cookieValue = value, !.cookieMaxAge = maxage]

\* Stamp with the given claims written after the stamps
Stamp_GivenLast(m, claims, t) ==
  LET stamped == Put(Put(NoClaims, "exp", Int64(t + m.Timeout)), "orig_iat", Int64(t))
  IN [x \in DOMAIN claims \cup DOMAIN stamped |->
        IF x \in DOMAIN claims THEN claims[x] ELSE stamped[x]]

\* Stamp that stamps an iat claim as well
Stamp_WithIat(m, claims, t) ==
  Put(Put(Put(claims, "exp", Int64(t + m.Timeout)), "orig_iat", Int64(t)),
      "iat", Int64(t))

\* the claims of a new token: the given ones, then exp and orig_iat stamped
Stamp(m, claims, t) ==
  Put(Put(claims, "exp", Int64(t + m.Timeout)), "orig_iat", Int64(t))

\* LoginHandler.  auth is what mw.Authenticator returned, payload what
\* mw.PayloadFunc returned for its data (no claim when PayloadFunc is nil)
LoginHandler(m, c, auth, payload, t) ==
  IF m.Authenticator = "nil"
  THEN unauthorized(m, c, 500, HTTPStatusMessageFunc(ErrMissingAuthenticatorFunc))
  ELSE IF auth # NoErr
  THEN unauthorized(m, c, 401, HTTPStatusMessageFunc(auth))
  ELSE
    LET claims == Stamp(m, payload, t)
        signed == signedString(m, claims)
        c1 == [c EXCEPT !.given = payload]
        c2 == IF m.SendCookie THEN SetCookie(c1, signed.token, (t + m.CookieMaxAge) - t)
              ELSE c1
    IN IF signed.outcome = "panic" THEN [c1 EXCEPT !.panicked = TRUE]
       ELSE IF signed.outcome # "ok"
       THEN unauthorized(m, c1, 401, HTTPStatusMessageFunc(ErrFailedTokenCreation))
       ELSE [c2 EXCEPT !.code = 200, !.token = signed.token, !.expire = t + m.Timeout]

\* TokenGenerator(data)
TokenGenerator(m, c, payload, t) ==
  LET claims == Stamp(m, payload, t)
      signed == signedString(m, claims)
      c1 == [c EXCEPT !.given = payload]
  IN IF signed.outcome = "panic" THEN [c1 EXCEPT !.panicked = TRUE]
     ELSE IF signed.outcome # "ok" THEN [c1 EXCEPT !.err = ErrFailedTokenCreation]
     ELSE [c1 EXCEPT !.token = signed.token, !.expire = t + m.Timeout]

\* OnlyExpired testing the Expired bit instead of comparing the whole bitfield
OnlyExpired_ExpiredBit(err) == err.kind = "validation" /\ "Expired" \in err.flags

\* the one verification failure CheckIfTokenExpire lets through
OnlyExpired(err) == err.kind = "validation" /\ err.flags = {"Expired"}

\* CheckIfTokenExpire: outcome "ok" with the claims, "err" with the error, or
\* "panic" when orig_iat is no float64
Checked(outcome, claims, err) == [outcome |-> outcome, claims |-> claims, err |-> err]

\* CheckIfTokenExpire with the window test off by one second
CheckIfTokenExpire_OffByOne(m, p, t) ==
  IF p.err # NoErr /\ ~OnlyExpired(p.err) THEN Checked("err", NoClaims, p.err)
  ELSE IF Get(p.claims, "orig_iat").t # "float64" THEN Checked("panic", NoClaims, NoErr)
  ELSE IF Get(p.claims, "orig_iat").n <= t - m.MaxRefresh
  THEN Checked("err", NoClaims, ErrExpiredToken)
  ELSE Checked("ok", p.claims, NoErr)

CheckIfTokenExpire(m, p, t) ==
  IF p.err # NoErr /\ ~OnlyExpired(p.err) THEN Checked("err", NoClaims, p.err)
  ELSE IF Get(p.claims, "orig_iat").t # "float64" THEN Checked("panic", NoClaims, NoErr)
  ELSE IF Get(p.claims, "orig_iat").n < t - m.MaxRefresh
  THEN Checked("err", NoClaims, ErrExpiredToken)
  ELSE Checked("ok", p.claims, NoErr)

\* RefreshToken: the context after it, with its return values in err, token, expire
RefreshToken(m, c, req, t, sigFirst) ==
  LET p == ParseToken(m, req, t, sigFirst)
      c0 == [c EXCEPT !.jwtTokenSet = p.jwtToken]
      chk == CheckIfTokenExpire(m, p, t)
      newClaims == Stamp(m, chk.claims, t)
      signed == signedString(m, newClaims)
      c1 == [c0 EXCEPT !.token = signed.token, !.expire = t + m.Timeout]
  IN IF chk.outcome = "panic" THEN [c0 EXCEPT !.panicked = TRUE]
     ELSE IF chk.outcome = "err" THEN [c0 EXCEPT !.err = chk.err]
     ELSE IF signed.outcome = "panic" THEN [c0 EXCEPT !.panicked = TRUE]
     ELSE IF signed.outcome # "ok" THEN [c0 EXCEPT !.err = Sentinel("key is invalid")]
     ELSE IF m.SendCookie
     THEN SetCookie(c1, signed.token, (t + m.CookieMaxAge) - JwtNow(m, t))
     ELSE c1

\* LogoutHandler: the cookie is deleted (empty value, max-age -1)
LogoutHandler(m, c) ==
  LET c1 == IF m.SendCookie THEN SetCookie(c, EmptyToken, -1) ELSE c
  IN [c1 EXCEPT !.code = 200]

\* RefreshHandler
RefreshHandler(m, c, req, t, sigFirst) ==
  LET c1 == RefreshToken(m, c, req, t, sigFirst)
  IN IF c1.panicked THEN c1
     ELSE IF c1.err # NoErr
     THEN unauthorized(m, c1, 401, HTTPStatusMessageFunc(c1.err))
     ELSE [c1 EXCEPT !.code = 200]

-----------------------------------------------------------------------------
(* Configurations *)

\* the TokenLookup lists of the model, as the source kinds in their order
Lookups ==
  {<<"header">>, <<"query">>, <<"cookie">>, <<"param">>, <<"postform">>,
   <<"header", "postform">>, <<"postform", "header">>}

\* the key settings: algorithm, KeyFunc, Key, privKey, pubKey
KeySetting(alg, keyFunc, key, priv, pub) ==
  [SigningAlgorithm |-> alg, KeyFunc |-> keyFunc, Key |-> key, privKey |-> priv, pubKey |-> pub]

KeySettings ==
  {KeySetting("HS256", FALSE, "secret", "nil", "nil"),
   KeySetting("RS256", FALSE, "nil", "loaded", "loaded"),
   KeySetting("HS256", TRUE, "secret", "nil", "nil"),
   KeySetting("HS256", TRUE, "nil", "nil", "nil"),
   KeySetting("RS256", TRUE, "nil", "nil", "nil")}

\* FilteredURL "/t, /v": two prefixes, the second with a space to trim
FilteredURLText == <<"/", "t", ",", " ", "/", "v">>

Config(lookup, ks, authorizator, ahead, maxRefresh) ==
  [TokenLookup |-> lookup,
   SigningAlgorithm |-> ks.SigningAlgorithm,
   KeyFunc |-> ks.KeyFunc,
   Key |-> ks.Key,
   privKey |-> ks.privKey,
   pubKey |-> ks.pubKey,
   Authorizator |-> authorizator,
   Authenticator |-> "set",
   TimeFuncAhead |-> ahead,
   Timeout |-> TimeoutSecs,
   MaxRefresh |-> maxRefresh,
   CookieMaxAge |-> TimeoutSecs,
   TokenHeadName |-> "Bearer",
   IdentityKey |-> "identity",
   FilteredURL |-> FilteredURLText,
   SendCookie |-> FALSE,
   SendAuthorization |-> FALSE,
   DisabledAbort |-> FALSE]

\* New(m): the configurations MiddlewareInit accepts
Initialized(cfgs) == {m \in cfgs : MiddlewareInitError(m) = NoErr}

Configs ==
  Initialized({Config(l, ks, a, ahead, MaxRefreshSecs) :
                 l \in Lookups, ks \in KeySettings,
                 a \in {"default", "adminOnly"}, ahead \in {0, 1}})

IssuerConfigs ==
  Initialized({Config(l, ks, "default", ahead, r) :
                 l \in {<<"header">>, <<"postform">>}, ks \in KeySettings,
                 ahead \in {0, 1}, r \in 0..MaxRefreshSecs})

-----------------------------------------------------------------------------
(* Requests *)

Opt(k, vals) == {NoClaims} \cup {[x \in {k} |-> v] : v \in vals}

Only(k, v) == {[x \in {k} |-> v]}

Merge(a, b) == [x \in DOMAIN a \cup DOMAIN b |-> IF x \in DOMAIN a THEN a[x] ELSE b[x]]

ClaimSets(E, O, N, I) ==
  {Merge(Merge(e, o), Merge(n, i)) : e \in E, o \in O, n \in N, i \in I}

ExpOpts == Opt("exp", {JStr("soon"), JNum(0), JNum(ClaimTime)})
OrigIatOpts == Opt("orig_iat", {JStr("then"), JNum(IssuedAt)})
NbfOpts == Opt("nbf", {JNum(ClaimTime)})
IdentityOpts == Opt("identity", {JStr("admin"), JStr("guest")})

\* claim segments of the tokens presented to the middleware and to refresh
MiddlewareClaims ==
  ClaimSets(ExpOpts, Only("orig_iat", JNum(IssuedAt)), NbfOpts, IdentityOpts)

RefreshClaims ==
  ClaimSets(ExpOpts, OrigIatOpts, NbfOpts, Only("identity", JStr("admin")))

PlainClaims ==
  ClaimSets(Only("exp", JNum(ClaimTime)), Only("orig_iat", JNum(IssuedAt)),
            {NoClaims}, Only("identity", JStr("admin")))

\* the key that signs under configuration m what m verifies
GoodSig(m) == IF usingPublicKeyAlgo(m) THEN "priv" ELSE "secret"

\* tokens signed for m, and tokens of every algorithm and signing key
Genuine(m, claimSets) == {Jwt(m.SigningAlgorithm, GoodSig(m), c) : c \in claimSets}

Variants ==
  {Jwt(a, s, c) : a \in {"HS256", "HS384", "RS256", "RS384"},
                  s \in {"secret", "priv", "forged"}, c \in PlainClaims}

Tokens(m, claimSets) == Genuine(m, claimSets) \cup Variants \cup {GarbageToken}

GoodToken(m) == CHOOSE tok \in Genuine(m, PlainClaims) : TRUE

\* the values a source may hold: all of them, or a few
SourceValues(m, k, claimSets) ==
  IF k = "header"
  THEN {NoHeader, Header(1, "Bearer", EmptyToken), Header(2, "bearer", GoodToken(m)),
        Header(2, "Bearer", EmptyToken)}
         \cup {Header(2, "Bearer", tok) : tok \in Tokens(m, claimSets)}
  ELSE {EmptyToken} \cup Tokens(m, claimSets)

FewValues(m, k) ==
  IF k = "header"
  THEN {NoHeader, Header(1, "Bearer", EmptyToken), Header(2, "Bearer", GoodToken(m))}
  ELSE {EmptyToken, GoodToken(m)}

Paths == {<<"/", "v", "1">>, <<"/", "u">>}

With1(path, k, v) == [[NoRequest EXCEPT !.path = path] EXCEPT ![k] = v]

\* the requests sent to a middleware configured as m: the configured sources
\* hold a value, the other sources are empty
Requests(m, claimSets) ==
  LET l == m.TokenLookup
  IN IF Len(l) = 1
     THEN {With1(path, l[1], v) : path \in Paths, v \in SourceValues(m, l[1], claimSets)}
     ELSE {[With1(path, l[1], v) EXCEPT ![l[2]] = w] :
             path \in Paths, v \in SourceValues(m, l[1], claimSets), w \in FewValues(m, l[2])}
          \cup
          {[With1(path, l[1], v) EXCEPT ![l[2]] = w] :
             path \in Paths, v \in FewValues(m, l[1]), w \in SourceValues(m, l[2], claimSets)}

\* what mw.Authenticator may return: nil, or an authentication error
AuthResults == {NoErr, ErrFailedAuthentication, ErrMissingLoginValues}

\* what mw.PayloadFunc may return (Go values)
Payloads ==
  {NoClaims,
   [x \in {"identity"} |-> Str("admin")],
   [x \in {"identity", "exp", "orig_iat"} |->
      IF x = "identity" THEN Str("guest") ELSE Int64(0)],
   [x \in {"identity", "level"} |-> IF x = "identity" THEN Str("admin") ELSE Float64(ClaimTime)]}

-----------------------------------------------------------------------------
(* The state machine *)

Start(handler, req) == [Idle EXCEPT !.handler = handler, !.req = req]

\* nobody holds a token
\* (token: the compact token; claims: the claim set that was signed; t0: the
\* time of the login; at: the time the token was issued; refreshed: whether it
\* came from RefreshToken)
NoSession ==
  [token |-> EmptyToken, claims |-> NoClaims, t0 |-> 0, at |-> 0, refreshed |-> FALSE]

\* no request is being handled concurrently
NoneInflight == <<>>

InitWith(cfgs) ==
  mw \in cfgs /\ now = 1 /\ ctx = Idle /\ client = NoSession /\ inflight = NoneInflight

Init == InitWith(Configs)

InitIssuer == InitWith(IssuerConfigs)

\* the clock advances between requests
Tick ==
  /\ ctx.handler = "idle"
  /\ now < MaxTime
  /\ now' = now + 1
  /\ UNCHANGED <<mw, ctx, client, inflight>>

\* a request passes through MiddlewareFunc
Middleware ==
  /\ ctx.handler = "idle"
  /\ \E req \in Requests(mw, MiddlewareClaims), sigFirst \in BOOLEAN :
       ctx' = MiddlewareFunc(mw, Start("middlewareImpl", req), req, now, sigFirst)
  /\ UNCHANGED <<mw, now, client, inflight>>

Login ==
  /\ ctx.handler = "idle"
  /\ \E auth \in AuthResults, payload \in Payloads :
       ctx' = LoginHandler(mw, Start("LoginHandler", NoRequest), auth, payload, now)
  /\ UNCHANGED <<mw, now, client, inflight>>

Generate ==
  /\ ctx.handler = "idle"
  /\ \E payload \in Payloads :
       ctx' = TokenGenerator(mw, Start("TokenGenerator", NoRequest), payload, now)
  /\ UNCHANGED <<mw, now, client, inflight>>

Refresh ==
  /\ ctx.handler = "idle"
  /\ \E req \in Requests(mw, RefreshClaims), sigFirst \in BOOLEAN :
       ctx' = RefreshHandler(mw, Start("RefreshHandler", req), req, now, sigFirst)
  /\ UNCHANGED <<mw, now, client, inflight>>

\* the request is over; the next one starts with a fresh context
Done ==
  /\ ctx.handler \notin {"idle", "main", "New"}
  /\ ctx' = Idle
  /\ UNCHANGED <<mw, now, client, inflight>>

Next == Tick \/ Middleware \/ Login \/ Generate \/ Refresh \/ Done

NextIssuer == Tick \/ Login \/ Generate \/ Refresh \/ Done

Spec == Init /\ [][Next]_vars

SpecIssuer == InitIssuer /\ [][NextIssuer]_vars

-----------------------------------------------------------------------------
(* Initialization: the struct as main() wrote it, New / MiddlewareInit, and
   the requests served once New returned the middleware *)

\* time.Hour in seconds
Hour == 3600

\* the default FilteredURL, "/douyin/test"
DefaultFilteredURL == <<"/", "d", "o", "u", "y", "i", "n", "/", "t", "e", "s", "t">>

\* the files ioutil.ReadFile can read, and what they hold: an RSA private key
\* in PEM, the same encrypted under the passphrase "pw", an RSA public key in
\* PEM, and a file that holds no key
KeyFiles == {"priv.pem", "enc.pem", "pub.pem", "junk.pem"}

FileContent(path) ==
  CASE path = "priv.pem" -> "privPEM"
    [] path = "enc.pem" -> "encPEM"
    [] path = "pub.pem" -> "pubPEM"
    [] OTHER -> "junk"

\* the result of a step of initialization: the struct as left, and the error
Inited(m, err) == [mw |-> m, err |-> err]

\* jwt.ParseRSAPrivateKeyFromPEM / ...WithPassword / ParseRSAPublicKeyFromPEM succeed
ParsesAsPrivateKey(keyData) == keyData = "privPEM"

ParsesAsPrivateKeyWithPassword(keyData, passphrase) ==
  keyData = "encPEM" /\ passphrase = "pw"

ParsesAsPublicKey(keyData) == keyData = "pubPEM"

privateKey(m) ==
  IF m.PrivKeyFile # "" /\ m.PrivKeyFile \notin KeyFiles THEN Inited(m, ErrNoPrivKeyFile)
  ELSE
    LET keyData == IF m.PrivKeyFile = "" THEN m.PrivKeyBytes ELSE FileContent(m.PrivKeyFile)
    IN IF m.PrivateKeyPassphrase # ""
       THEN IF ParsesAsPrivateKeyWithPassword(keyData, m.PrivateKeyPassphrase)
            THEN Inited([m EXCEPT !.privKey = "loaded"], NoErr)
            ELSE Inited(m, ErrInvalidPrivKey)
       ELSE IF ParsesAsPrivateKey(keyData)
            THEN Inited([m EXCEPT !.privKey = "loaded"], NoErr)
            ELSE Inited(m, ErrInvalidPrivKey)

publicKey(m) ==
  IF m.PubKeyFile # "" /\ m.PubKeyFile \notin KeyFiles THEN Inited(m, ErrNoPubKeyFile)
  ELSE
    LET keyData == IF m.PubKeyFile = "" THEN m.PubKeyBytes ELSE FileContent(m.PubKeyFile)
    IN IF ParsesAsPublicKey(keyData)
       THEN Inited([m EXCEPT !.pubKey = "loaded"], NoErr)
       ELSE Inited(m, ErrInvalidPubKey)

\* readKeys that loads the public key before the private key
readKeys_PublicFirst(m) ==
  LET pub == publicKey(m)
  IN IF pub.err # NoErr THEN pub ELSE privateKey(pub.mw)

readKeys(m) ==
  LET priv == privateKey(m)
  IN IF priv.err # NoErr THEN priv ELSE publicKey(priv.mw)

\* the defaults MiddlewareInit writes into the zero-valued fields (TimeFunc:
\* TimeFuncAhead 0 is time.Now; TokenHeadName: the values of the model have no
\* space to trim)
Defaults(m) ==
  LET timeout == IF m.Timeout = 0 THEN Hour ELSE m.Timeout
  IN [m EXCEPT
        !.TokenLookup = IF m.TokenLookup = <<>> THEN <<"header">> ELSE m.TokenLookup,
        !.FilteredURL = IF m.FilteredURL = <<>> THEN DefaultFilteredURL ELSE m.FilteredURL,
        !.SigningAlgorithm = IF m.SigningAlgorithm = "" THEN "HS256" ELSE m.SigningAlgorithm,
        !.Timeout = timeout,
        !.TokenHeadName = IF m.TokenHeadName = "" THEN "Bearer" ELSE m.TokenHeadName,
        !.Authorizator = IF m.Authorizator = "nil" THEN "default" ELSE m.Authorizator,
        !.IdentityKey = IF m.IdentityKey = "" THEN "identity" ELSE m.IdentityKey,
        !.CookieMaxAge = IF m.CookieMaxAge = 0 THEN timeout ELSE m.CookieMaxAge]

MiddlewareInit(m) ==
  LET d == Defaults(m)
  IN IF d.KeyFunc THEN Inited(d, NoErr)
     ELSE IF usingPublicKeyAlgo(d) THEN readKeys(d)
     ELSE IF d.Key = "nil" THEN Inited(d, ErrMissingSecretKey)
     ELSE Inited(d, NoErr)

\* the struct literal of main(): the optional fields zero or set, the key
\* settings, Authenticator and DisabledAbort as given, no key loaded
RawConfig(zero, alg, keyFunc, key, authenticator, disabledAbort, sources) ==
  [TokenLookup |-> IF zero THEN <<>> ELSE <<"query">>,
   SigningAlgorithm |-> alg,
   KeyFunc |-> keyFunc,
   Key |-> key,
   privKey |-> "nil",
   pubKey |-> "nil",
   PrivKeyFile |-> sources.PrivKeyFile,
   PrivKeyBytes |-> sources.PrivKeyBytes,
   PrivateKeyPassphrase |-> sources.PrivateKeyPassphrase,
   PubKeyFile |-> sources.PubKeyFile,
   PubKeyBytes |-> sources.PubKeyBytes,
   Authorizator |-> IF zero THEN "nil" ELSE "adminOnly",
   Authenticator |-> authenticator,
   TimeFuncAhead |-> 0,
   Timeout |-> IF zero THEN 0 ELSE TimeoutSecs,
   MaxRefresh |-> IF zero THEN 0 ELSE MaxRefreshSecs,
   CookieMaxAge |-> 0,
   TokenHeadName |-> IF zero THEN "" ELSE "Bearer",
   IdentityKey |-> IF zero THEN "" ELSE "identity",
   FilteredURL |-> IF zero THEN <<>> ELSE FilteredURLText,
   SendCookie |-> FALSE,
   SendAuthorization |-> FALSE,
   DisabledAbort |-> disabledAbort]

KeySources(privFile, privBytes, passphrase, pubFile, pubBytes) ==
  [PrivKeyFile |-> privFile, PrivKeyBytes |-> privBytes, PrivateKeyPassphrase |-> passphrase,
   PubKeyFile |-> pubFile, PubKeyBytes |-> pubBytes]

NoKeySources == KeySources("", "nil", "", "", "nil")

AllKeySources ==
  {KeySources(pf, pb, pp, uf, ub) :
     pf \in {"", "missing.pem", "priv.pem", "enc.pem", "junk.pem"},
     pb \in {"nil", "privPEM"}, pp \in {"", "pw"},
     uf \in {"", "missing.pem", "pub.pem", "junk.pem"}, ub \in {"nil", "pubPEM"}}

\* symmetric settings with every combination of KeyFunc, Key, Authenticator
\* and DisabledAbort; RS256 with every key source; RS256 under KeyFunc
RawConfigs ==
  {RawConfig(zero, alg, kf, key, authn, da, NoKeySources) :
     zero \in BOOLEAN, alg \in {"", "HS256"}, kf \in BOOLEAN, key \in {"nil", "secret"},
     authn \in {"nil", "set"}, da \in BOOLEAN}
    \cup {RawConfig(FALSE, "RS256", FALSE, "nil", "set", FALSE, src) : src \in AllKeySources}
    \cup {RawConfig(FALSE, "RS256", TRUE, "nil", "set", FALSE, src) :
            src \in {NoKeySources, KeySources("priv.pem", "nil", "", "pub.pem", "nil")}}

InitNew ==
  /\ mw \in RawConfigs
  /\ now = 1
  /\ ctx = [Idle EXCEPT !.handler = "main"]
  /\ client = NoSession
  /\ inflight = NoneInflight

\* New(mw): MiddlewareInit writes the struct in place; err is what New returns
New ==
  /\ ctx.handler = "main"
  /\ LET r == MiddlewareInit(mw)
     IN /\ mw' = r.mw
        /\ ctx' = [Idle EXCEPT !.handler = "New", !.err = r.err]
  /\ UNCHANGED <<now, client, inflight>>

\* New returned the middleware: the router is set up and requests are served
Serve ==
  /\ ctx.handler = "New"
  /\ ctx.err = NoErr
  /\ ctx' = Idle
  /\ UNCHANGED <<mw, now, client, inflight>>

NextNew == New \/ Serve \/ Tick \/ Middleware \/ Login \/ Done

SpecNew == InitNew /\ [][NextNew]_vars

-----------------------------------------------------------------------------
(* A client session: the token received at login is presented, verified and
   refreshed, each refresh replacing the token the client holds *)

\* lookups, key settings, clocks, refresh windows and timeouts of the sessions
SessionConfigs ==
  Initialized({[Config(l, ks, "default", ahead, r) EXCEPT !.Timeout = to, !.CookieMaxAge = to] :
                 l \in {<<"header">>, <<"cookie">>}, ks \in KeySettings,
                 ahead \in {0, 1}, r \in 0..MaxRefreshSecs, to \in 1..TimeoutSecs})

InitSession == InitWith(SessionConfigs)

\* the request that carries tok in the first configured lookup source
Carry(m, path, tok) ==
  LET k == m.TokenLookup[1]
  IN With1(path, k, IF k = "header" THEN Header(2, m.TokenHeadName, tok) ELSE tok)

\* what the client holds after a response c: the token of the response, if any
Holds(c, claims, t0, refreshed) ==
  IF c.token = EmptyToken THEN client
  ELSE [token |-> c.token, claims |-> claims, t0 |-> t0, at |-> now, refreshed |-> refreshed]

\* a login: the client keeps the token LoginHandler responds
SessionLogin ==
  /\ ctx.handler = "idle"
  /\ \E auth \in AuthResults, payload \in Payloads :
       /\ ctx' = LoginHandler(mw, Start("LoginHandler", NoRequest), auth, payload, now)
       /\ client' = Holds(ctx', Stamp(mw, payload, now), now, FALSE)
  /\ UNCHANGED <<mw, now, inflight>>

\* the application hands the client a token of TokenGenerator
SessionGenerate ==
  /\ ctx.handler = "idle"
  /\ \E payload \in Payloads :
       /\ ctx' = TokenGenerator(mw, Start("TokenGenerator", NoRequest), payload, now)
       /\ client' = Holds(ctx', Stamp(mw, payload, now), now, FALSE)
  /\ UNCHANGED <<mw, now, inflight>>

\* the client presents its token to the middleware
SessionPresent ==
  /\ ctx.handler = "idle"
  /\ client.token # EmptyToken
  /\ \E path \in Paths, sigFirst \in BOOLEAN :
       LET req == Carry(mw, path, client.token)
       IN ctx' = MiddlewareFunc(mw, Start("middlewareImpl", req), req, now, sigFirst)
  /\ UNCHANGED <<mw, now, client, inflight>>

\* the client exchanges its token at RefreshHandler and keeps the new one
SessionRefresh ==
  /\ ctx.handler = "idle"
  /\ client.token # EmptyToken
  /\ \E path \in Paths, sigFirst \in BOOLEAN :
       LET req == Carry(mw, path, client.token)
       IN /\ ctx' = RefreshHandler(mw, Start("RefreshHandler", req), req, now, sigFirst)
          /\ client' = Holds(ctx', Stamp(mw, DecodeClaims(client.token.claims), now),
                             client.t0, TRUE)
  /\ UNCHANGED <<mw, now, inflight>>

\* the application verifies a token string with ParseTokenString: the
\* client's token, or that token signed by another key
SessionVerify ==
  /\ ctx.handler = "idle"
  /\ client.token # EmptyToken
  /\ \E tok \in {client.token, [client.token EXCEPT !.sig = "forged"]}, sigFirst \in BOOLEAN :
       LET p == ParseTokenString(mw, tok, now, sigFirst)
       IN ctx' = [Start("ParseTokenString", NoRequest) EXCEPT
                    !.token = tok, !.err = p.err, !.parsed = p.nonNil, !.claims = p.claims]
  /\ UNCHANGED <<mw, now, client, inflight>>

NextSession ==
  Tick \/ SessionLogin \/ SessionGenerate \/ SessionPresent \/ SessionRefresh
    \/ SessionVerify \/ Done

SpecSession == InitSession /\ [][NextSession]_vars

-----------------------------------------------------------------------------
(* Cookies: the token travels in the cookie LoginHandler and RefreshToken
   write and LogoutHandler deletes *)

\* SendCookie on and off, CookieMaxAge left zero or configured, the clock of
\* TimeFunc equal to or ahead of time.Now; MiddlewareInit fills the defaults
CookieConfigs ==
  {MiddlewareInit([Config(<<"cookie">>, ks, "default", ahead, MaxRefreshSecs) EXCEPT
                     !.SendCookie = sc, !.CookieMaxAge = age]).mw :
     ks \in {KeySetting("HS256", FALSE, "secret", "nil", "nil"),
             KeySetting("HS256", TRUE, "secret", "nil", "nil")},
     ahead \in {0, 1}, sc \in BOOLEAN, age \in {0, TimeoutSecs + 1}}

InitCookie == InitWith(CookieConfigs)

Logout ==
  /\ ctx.handler = "idle"
  /\ ctx' = LogoutHandler(mw, Start("LogoutHandler", NoRequest))
  /\ UNCHANGED <<mw, now, client, inflight>>

NextCookie == Tick \/ Login \/ Refresh \/ Logout \/ Done

SpecCookie == InitCookie /\ [][NextCookie]_vars

-----------------------------------------------------------------------------
(* API handlers behind the middleware: PublishVideo and FavoriteByUser.  They
   read the claims the middleware published and the query parameters, call
   the video RPC service and write JSON responses. *)

\* package errno: ParamErr, IdNotEqualErr, Success, and ConvertErr
Errno(name) == [kind |-> "errno", text |-> name, flags |-> {}]

ConvertErr(e) == IF e.kind = "errno" THEN e ELSE Errno(e.text)

\* *strconv.NumError of ParseInt
ErrSyntax == [kind |-> "strconv", text |-> "invalid syntax", flags |-> {}]

\* errors of the upload and of the RPC service
ErrNoFile == Sentinel("http: no such file")
ErrSaveFailed == Sentinel("open: permission denied")
ErrRPC == Sentinel("rpc: service unavailable")

DigitValue ==
  [ch \in {"0", "1", "2", "3", "4", "5", "6", "7", "8", "9"} |->
     CASE ch = "0" -> 0 [] ch = "1" -> 1 [] ch = "2" -> 2 [] ch = "3" -> 3 [] ch = "4" -> 4
       [] ch = "5" -> 5 [] ch = "6" -> 6 [] ch = "7" -> 7 [] ch = "8" -> 8 [] ch = "9" -> 9]

RECURSIVE ParseDigits(_, _)
ParseDigits(s, acc) ==
  IF s = <<>> THEN acc ELSE ParseDigits(Tail(s), acc * 10 + DigitValue[Head(s)])

\* strconv.ParseInt(s, 10, 64) on a sequence of characters: an optional sign,
\* then one decimal digit or more (the strings of the model stay far from the
\* 64-bit range)
ParseInt(s) ==
  LET signed == s # <<>> /\ Head(s) \in {"+", "-"}
      digits == IF signed THEN Tail(s) ELSE s
  IN IF digits = <<>> \/ \E i \in 1..Len(digits) : digits[i] \notin DOMAIN DigitValue
     THEN [n |-> 0, err |-> ErrSyntax]
     ELSE [n |-> IF signed /\ Head(s) = "-" THEN 0 - ParseDigits(digits, 0)
                 ELSE ParseDigits(digits, 0),
           err |-> NoErr]

\* ExtractClaims(c): the claims under JWT_PAYLOAD, an empty map when not set
ExtractClaims(c) == IF c.payloadSet THEN c.payload ELSE NoClaims

\* vo.GetUserIdFromToken(c): the numeric identity of the claims, -1 when the
\* token yields none
GetUserIdFromToken(m, c) ==
  LET id == Get(ExtractClaims(c), m.IdentityKey)
  IN IF id.t = "float64" THEN id.n ELSE 0 - 1

\* SendResponse / SendCreateVideoResponse: one JSON response written
SendResponse(c, err, data) ==
  [c EXCEPT !.responses = Append(@, [err |-> ConvertErr(err), data |-> data])]

SendCreateVideoResponse(c, err) == SendResponse(c, err, "nil")

\* the RPC request is sent
Call(c, request) == [c EXCEPT !.rpcCalls = Append(@, request)]

\* PublishVideo(c)
PublishVideo(m, c) ==
  LET claims == ExtractClaims(c)
      identity == Get(claims, m.IdentityKey)
      newVideo == [method |-> "CreateVideo", AuthorId |-> identity.n, Title |-> c.query.title]
  IN IF identity.t # "float64" THEN [c EXCEPT !.panicked = TRUE]
     ELSE IF c.query.title = <<>> THEN SendCreateVideoResponse(c, Errno("ParamErr"))
     ELSE IF c.env.formFile # NoErr THEN SendCreateVideoResponse(c, c.env.formFile)
     ELSE IF c.env.save # NoErr THEN SendCreateVideoResponse(c, c.env.save)
     ELSE LET c1 == Call(c, newVideo)
              c2 == IF c.env.rpc # NoErr THEN SendCreateVideoResponse(c1, c.env.rpc) ELSE c1
          IN SendCreateVideoResponse(c2, Errno("Success"))

\* FavoriteByUser that takes the user of the request from the user_id
\* parameter when one is supplied
FavoriteByUser_QueryUser(m, c) ==
  LET tokenId == GetUserIdFromToken(m, c)
      user == ParseInt(c.query.user_id)
      video == ParseInt(c.query.video_id)
      action == ParseInt(c.query.action_type)
      request == [method |-> "FavoriteByUser",
                  UserId |-> IF c.query.user_id # <<>> THEN user.n ELSE tokenId,
                  VideoId |-> video.n, ActionType |-> action.n]
  IN IF tokenId = 0 - 1 \/ c.query.video_id = <<>> \/ c.query.action_type = <<>>
     THEN SendResponse(c, Errno("ParamErr"), "nil")
     ELSE IF c.query.user_id # <<>> /\ user.err # NoErr
     THEN SendResponse(c, user.err, "nil")
     ELSE IF video.err # NoErr THEN SendResponse(c, video.err, "nil")
     ELSE IF action.err # NoErr THEN SendResponse(c, action.err, "nil")
     ELSE IF c.env.rpc # NoErr THEN SendResponse(Call(c, request), c.env.rpc, "nil")
     ELSE SendResponse(Call(c, request), Errno("Success"), "resp")

\* FavoriteByUser(c)
FavoriteByUser(m, c) ==
  LET tokenId == GetUserIdFromToken(m, c)
      user == ParseInt(c.query.user_id)
      video == ParseInt(c.query.video_id)
      action == ParseInt(c.query.action_type)
      request == [method |-> "FavoriteByUser", UserId |-> tokenId,
                  VideoId |-> video.n, ActionType |-> action.n]
  IN IF tokenId = 0 - 1 \/ c.query.video_id = <<>> \/ c.query.action_type = <<>>
     THEN SendResponse(c, Errno("ParamErr"), "nil")
     ELSE IF c.query.user_id # <<>> /\ user.err # NoErr
     THEN SendResponse(c, user.err, "nil")
     ELSE IF c.query.user_id # <<>> /\ user.n # tokenId
     THEN SendResponse(c, Errno("IdNotEqualErr"), "nil")
     ELSE IF video.err # NoErr THEN SendResponse(c, video.err, "nil")
     ELSE IF action.err # NoErr THEN SendResponse(c, action.err, "nil")
     ELSE IF c.env.rpc # NoErr THEN SendResponse(Call(c, request), c.env.rpc, "nil")
     ELSE SendResponse(Call(c, request), Errno("Success"), "resp")

\* the API service's middleware: the token travels in the query or the form
ApiConfigs ==
  {Config(l, KeySetting("HS256", FALSE, "secret", "nil", "nil"), "default", 0, MaxRefreshSecs) :
     l \in {<<"query">>, <<"postform">>}}

\* the claims the middleware published for the request: none (a request
\* admitted without a token), a token without identity, an identity that is
\* no number, the user 1 or 2
ApiPayloads ==
  {NoClaims,
   [x \in {"exp"} |-> Float64(ClaimTime)],
   [x \in {"exp", "identity"} |-> IF x = "exp" THEN Float64(ClaimTime) ELSE Str("admin")]}
    \cup {[x \in {"exp", "identity"} |-> IF x = "exp" THEN Float64(ClaimTime) ELSE Float64(n)] :
            n \in {1, 2}}

\* decimal numerals and the numbers they denote
Numerals ==
  {<<(<<"1">>), 1>>, <<(<<"2">>), 2>>, <<(<<"+", "1">>), 1>>, <<(<<"0", "2">>), 2>>,
   <<(<<"1", "2">>), 12>>, <<(<<"-", "1">>), 0 - 1>>}

\* values of a query parameter: absent, numerals, and text that is no number
QueryValues == {<<>>, <<"x">>, <<"1", "x">>, <<"-">>} \cup {nv[1] : nv \in Numerals}

FewQueryValues == {<<>>, <<"x">>, <<"1">>, <<"1", "2">>}

Titles == {<<>>, <<"c", "a", "t">>}

InitApi == InitWith(ApiConfigs)

\* the context the middleware hands to an API handler
Handed(handler, payload, query, env) ==
  [Start(handler, NoRequest) EXCEPT
     !.payloadSet = TRUE, !.payload = payload, !.next = 1, !.query = query, !.env = env]

Publish ==
  /\ ctx.handler = "idle"
  /\ \E payload \in ApiPayloads, title \in Titles,
        formFile \in {NoErr, ErrNoFile}, save \in {NoErr, ErrSaveFailed},
        rpc \in {NoErr, ErrRPC, Errno("ServiceErr")} :
       ctx' = PublishVideo(mw, Handed("PublishVideo", payload,
                                      [NoQuery EXCEPT !.title = title],
                                      [formFile |-> formFile, save |-> save, rpc |-> rpc]))
  /\ UNCHANGED <<mw, now, client, inflight>>

Favorite ==
  /\ ctx.handler = "idle"
  /\ \E payload \in ApiPayloads, user \in QueryValues, video \in FewQueryValues,
        action \in FewQueryValues, rpc \in {NoErr, ErrRPC} :
       ctx' = FavoriteByUser(mw, Handed("FavoriteByUser", payload,
                                        [NoQuery EXCEPT !.user_id = user, !.video_id = video,
                                                        !.action_type = action],
                                        [NoFailure EXCEPT !.rpc = rpc]))
  /\ UNCHANGED <<mw, now, client, inflight>>

NextApi == Publish \/ Favorite \/ Done

SpecApi == InitApi /\ [][NextApi]_vars

-----------------------------------------------------------------------------
(* Concurrent requests: the HTTP server runs the handlers of several requests
   at once against the one GinJWTMiddleware.  middlewareImpl takes two steps,
   GetClaimsFromJWT and the rest, with the steps of other requests and the
   clock in between; the other handlers take one step. *)

\* the goroutines that serve requests
Workers == {"w1", "w2"}

ConcurrentConfigs ==
  Initialized({[Config(<<"header">>, ks, a, 0, MaxRefreshSecs) EXCEPT
                  !.SendCookie = (a = "adminOnly")] :
                 ks \in {KeySetting("HS256", FALSE, "secret", "nil", "nil"),
                         KeySetting("RS256", FALSE, "nil", "loaded", "loaded")},
                 a \in {"default", "adminOnly"}})

\* the tokens of two users, and the requests that bring one or none
GuestToken(m) ==
  Jwt(m.SigningAlgorithm, GoodSig(m),
      [x \in {"exp", "orig_iat", "identity"} |->
         IF x = "identity" THEN JStr("guest")
         ELSE IF x = "exp" THEN JNum(ClaimTime) ELSE JNum(IssuedAt)])

ConcurrentRequests(m) ==
  {With1(path, "header", h) :
     path \in Paths,
     h \in {NoHeader, Header(2, "Bearer", GoodToken(m)), Header(2, "Bearer", GuestToken(m))}}

\* what ParseToken returns before it was called
NoParsed == Parsed(FALSE, NoClaims, NoErr, FALSE)

\* a worker: pc is its position ("idle", "claims" after GetClaimsFromJWT,
\* "done"), c the gin context of its request, p the handler's local variables
\* token / claims / err, t1 and t2 the clock readings of its steps, auth and
\* payload what Authenticator and PayloadFunc returned to it, met the workers
\* that were inside middlewareImpl when it started
Worker(pc, c, p, t1, t2, auth, payload, met) ==
  [pc |-> pc, c |-> c, p |-> p, t1 |-> t1, t2 |-> t2, auth |-> auth, payload |-> payload,
   met |-> met]

IdleWorker == Worker("idle", Idle, NoParsed, 0, 0, NoErr, NoClaims, {})

InitConcurrent ==
  /\ mw \in ConcurrentConfigs
  /\ now = 1
  /\ ctx = Idle
  /\ client = NoSession
  /\ inflight = [w \in Workers |-> IdleWorker]

\* claims and err kept in one package-level variable instead of locals: a
\* worker reads what another worker inside middlewareImpl wrote there
Locals_Shared(w) ==
  IF \E v \in Workers \ {w} : inflight[v].pc = "claims"
  THEN [inflight[w] EXCEPT
          !.p = inflight[CHOOSE v \in Workers \ {w} : inflight[v].pc = "claims"].p]
  ELSE inflight[w]

\* the gin context and the local variables of the handler run by worker w
Locals(w) == inflight[w]

InMiddlewareImpl == {v \in Workers : inflight[v].pc = "claims"}

\* middlewareImpl, first step: claims, err := mw.GetClaimsFromJWT(c)
GetClaims(w) ==
  /\ inflight[w].pc = "idle"
  /\ \E req \in ConcurrentRequests(mw), sigFirst \in BOOLEAN :
       LET p == ParseToken(mw, req, now, sigFirst)
           c0 == AfterGetClaims(mw, Start("middlewareImpl", req), p)
       IN inflight' = [inflight EXCEPT
                         ![w] = Worker("claims", c0, p, now, 0, NoErr, NoClaims,
                                       InMiddlewareImpl)]
  /\ UNCHANGED <<mw, now, ctx, client>>

\* middlewareImpl, the rest, and the chain after it
Decide(w) ==
  /\ inflight[w].pc = "claims"
  /\ LET l == Locals(w)
         c1 == HandlersChain(middlewareImplFrom(mw, l.c, l.p, l.c.req.path, now))
     IN inflight' = [inflight EXCEPT ![w] = [@ EXCEPT !.pc = "done", !.c = c1, !.t2 = now]]
  /\ UNCHANGED <<mw, now, ctx, client>>

WorkerLogin(w) ==
  /\ inflight[w].pc = "idle"
  /\ \E auth \in {NoErr, ErrFailedAuthentication},
          payload \in {NoClaims, [x \in {"identity"} |-> Str("admin")]} :
       inflight' = [inflight EXCEPT
                      ![w] = Worker("done",
                                    LoginHandler(mw, Start("LoginHandler", NoRequest),
                                                 auth, payload, now),
                                    NoParsed, now, now, auth, payload, {})]
  /\ UNCHANGED <<mw, now, ctx, client>>

WorkerRefresh(w) ==
  /\ inflight[w].pc = "idle"
  /\ \E req \in ConcurrentRequests(mw), sigFirst \in BOOLEAN :
       inflight' = [inflight EXCEPT
                      ![w] = Worker("done",
                                    RefreshHandler(mw, Start("RefreshHandler", req), req,
                                                   now, sigFirst),
                                    NoParsed, now, now, NoErr, NoClaims, {})]
  /\ UNCHANGED <<mw, now, ctx, client>>

WorkerLogout(w) ==
  /\ inflight[w].pc = "idle"
  /\ inflight' = [inflight EXCEPT
                    ![w] = Worker("done", LogoutHandler(mw, Start("LogoutHandler", NoRequest)),
                                  NoParsed, now, now, NoErr, NoClaims, {})]
  /\ UNCHANGED <<mw, now, ctx, client>>

\* the response is written; the worker takes the next request
Respond(w) ==
  /\ inflight[w].pc = "done"
  /\ inflight' = [inflight EXCEPT ![w] = IdleWorker]
  /\ UNCHANGED <<mw, now, ctx, client>>

\* the clock advances, whatever the workers are doing, until the tokens of
\* the requests have expired
Clock ==
  /\ now <= ClaimTime
  /\ now' = now + 1
  /\ UNCHANGED <<mw, ctx, client, inflight>>

NextConcurrent ==
  \/ Clock
  \/ \E w \in Workers :
       \/ GetClaims(w)
       \/ Decide(w)
       \/ WorkerLogin(w)
       \/ WorkerRefresh(w)
       \/ WorkerLogout(w)
       \/ Respond(w)

SpecConcurrent == InitConcurrent /\ [][NextConcurrent]_vars

-----------------------------------------------------------------------------
(* Vocabulary of the properties *)

InMiddleware == ctx.handler = "middlewareImpl"

InRefresh == ctx.handler = "RefreshHandler"

\* the request path starts with one of the prefixes "/t", "/v" of FilteredURL
ExemptPath ==
  HasPrefix(ctx.req.path, <<"/", "t">>) \/ HasPrefix(ctx.req.path, <<"/", "v">>)

Configured(k) == \E i \in 1..Len(mw.TokenLookup) : mw.TokenLookup[i] = k

\* source k of the request holds nothing at all
SourceEmpty(k) ==
  IF k = "header" THEN ctx.req.header.n = 0 ELSE ctx.req[k] = EmptyToken

\* no configured source supplies a credential
NoCredential == \A i \in 1..Len(mw.TokenLookup) : SourceEmpty(mw.TokenLookup[i])

EmptyErrorText(k) ==
  CASE k = "header" -> "auth header is empty"
    [] k = "query" -> "query token is empty"
    [] k = "cookie" -> "cookie token is empty"
    [] k = "param" -> "parameter token is empty"
    [] k = "postform" -> "form post token is empty"

\* the header is configured and its value is not "<TokenHeadName> <token>"
MalformedHeader ==
  /\ Configured("header")
  /\ ctx.req.header.n # 0
  /\ ~(ctx.req.header.n = 2 /\ ctx.req.header.head = "Bearer"
         /\ ctx.req.header.tok # EmptyToken)

\* the token the request presents: the first non-empty one in lookup order
RECURSIVE FirstToken(_)
FirstToken(ks) ==
  IF ks = <<>> THEN EmptyToken
  ELSE LET v == IF Head(ks) = "header"
                THEN (IF ctx.req.header.n = 2 /\ ctx.req.header.head = "Bearer"
                      THEN ctx.req.header.tok ELSE EmptyToken)
                ELSE ctx.req[Head(ks)]
       IN IF v # EmptyToken THEN v ELSE FirstToken(Tail(ks))

Presented == FirstToken(mw.TokenLookup)

\* the presented token decodes and its signature verifies under the configuration
SignatureValid ==
  /\ Presented.kind = "jwt"
  /\ Presented.alg = mw.SigningAlgorithm
  /\ IF IsHMAC(Presented.alg) THEN Presented.sig = "secret" ELSE Presented.sig = "priv"

\* the presented token verifies: as SignatureValid, or, when an external
\* KeyFunc resolves the key, under any algorithm of the key's family
Verifies ==
  \/ SignatureValid
  \/ /\ mw.KeyFunc
     /\ Presented.kind = "jwt"
     /\ IsHMAC(Presented.alg) = IsHMAC(mw.SigningAlgorithm)
     /\ Presented.sig = (IF IsHMAC(Presented.alg) THEN "secret" ELSE "priv")

\* the presented token fails decoding or signature verification
FailsVerification == Presented # EmptyToken /\ ~Verifies

HasNumber(tok, k) == k \in DOMAIN tok.claims /\ tok.claims[k].t = "number"

\* the library clock reads this when the middleware clock reads now
LibraryNow == now - mw.TimeFuncAhead

\* nbf, when present, does not lie ahead of the library clock
NotBeforeOK ==
  "nbf" \notin DOMAIN Presented.claims
    \/ (HasNumber(Presented, "nbf") /\ Presented.claims["nbf"].n <= LibraryNow)

Rejected(code) == ctx.unauthorized = 1 /\ ctx.code = code /\ ctx.next = 0 /\ ~ctx.panicked

Admitted == ctx.next = 1 /\ ctx.unauthorized = 0 /\ ~ctx.panicked

-----------------------------------------------------------------------------
(* Properties of middlewareImpl, checked under Spec *)

\* C1: a request to an exempt path that supplies no credential in any
\* configured lookup source is admitted: c.Next is called, Unauthorized is
\* not invoked and nothing is stored under IdentityKey.
C1_ExemptNoCredentialAdmitted ==
  (InMiddleware /\ ExemptPath /\ NoCredential) => (Admitted /\ ~ctx.identitySet)

\* C2: a request to an exempt path that presents a malformed credential (a
\* header not of the "<TokenHeadName> <token>" shape, or a token that fails
\* decoding or signature verification) is rejected with 401 and c.Next is not
\* called.
C2_ExemptMalformedRejected ==
  (InMiddleware /\ ExemptPath /\ (MalformedHeader \/ FailsVerification))
    => Rejected(401)

\* C3: on a non-exempt path, a request in which no configured lookup source
\* supplies a credential is rejected with 401 carrying the message of the
\* empty-source error of a configured source, and c.Next is not called.
C3_NoCredentialRejected ==
  (InMiddleware /\ ~ExemptPath /\ NoCredential)
    => /\ Rejected(401)
       /\ \E i \in 1..Len(mw.TokenLookup) :
            ctx.message = EmptyErrorText(mw.TokenLookup[i])
       /\ Len(mw.TokenLookup) = 1 => ctx.message = EmptyErrorText(mw.TokenLookup[1])

C3_Witness ==
  /\ InMiddleware /\ ~ExemptPath /\ NoCredential
  /\ mw.TokenLookup = <<"query">>
  /\ Rejected(401)
  /\ ctx.message = "query token is empty"

\* C4: on an exempt path, a correctly signed token whose claim set has no exp,
\* or an exp that is no number, is rejected and the request is never admitted
\* with its identity published.
C4_ExemptBadExpRejected ==
  (InMiddleware /\ ExemptPath /\ SignatureValid /\ NotBeforeOK
     /\ ~HasNumber(Presented, "exp"))
    => (ctx.unauthorized = 1 /\ ctx.next = 0 /\ ~ctx.payloadSet)

\* C5: on an exempt path, a valid, unexpired token whose identity the
\* Authorizator rejects is rejected with 403 Forbidden and c.Next is not called.
C5_ExemptForbiddenRejected ==
  (InMiddleware /\ ExemptPath /\ SignatureValid /\ NotBeforeOK
     /\ HasNumber(Presented, "exp") /\ Presented.claims["exp"].n >= now
     /\ mw.Authorizator = "adminOnly"
     /\ Get(Presented.claims, "identity") # JStr("admin"))
    => (Rejected(403) /\ ctx.message = ErrForbidden.text)

\* the presented token carries a numeric exp strictly before the current time
ExpPassed ==
  /\ Presented.kind = "jwt"
  /\ HasNumber(Presented, "exp")
  /\ Presented.claims["exp"].n < now

\* C6 as claimed: every presented token whose exp is strictly less than the
\* current time is rejected with ExpiredToken, whatever its signature and
\* whatever the path, and never reaches c.Next.
C6_ExpiredRejectedAsExpired ==
  (InMiddleware /\ ExpPassed)
    => (Rejected(401) /\ ctx.message = ErrExpiredToken.text)

\* C6 amended: every presented token whose exp is strictly less than the
\* current time is rejected with 401 and never reaches c.Next nor has its
\* claims published, on exempt and non-exempt paths alike; the message is
\* ExpiredToken's when the token passes verification apart from its expiry.
C6_ExpiredRejected ==
  (InMiddleware /\ ExpPassed)
    => /\ Rejected(401)
       /\ ~ctx.payloadSet
       /\ (Verifies /\ NotBeforeOK) => ctx.message = ErrExpiredToken.text

C6_Witness ==
  /\ InMiddleware /\ ExpPassed /\ ExemptPath
  /\ SignatureValid /\ NotBeforeOK
  /\ mw.TimeFuncAhead = 1
  /\ Presented.claims["exp"].n = now - 1
  /\ Rejected(401)
  /\ ctx.message = ErrExpiredToken.text

\* the status codes and messages middlewareImpl rejects with
RejectionCodes == {400, 401, 403}

\* C22: each request processed by middlewareImpl reaches exactly one terminal
\* outcome: Admit (c.Next called once, Unauthorized never invoked) or Reject
\* (Unauthorized invoked once with one status code and one error message,
\* c.Next never called); never both, neither, or two rejections.
C22_ExactlyOneOutcome ==
  InMiddleware
    => /\ ~ctx.panicked
       /\ ctx.next + ctx.unauthorized = 1
       /\ Admitted => (ctx.code = 0 /\ ctx.message = "" /\ ~ctx.wwwAuthenticate)
       /\ ctx.unauthorized = 1
            => /\ \E code \in RejectionCodes : Rejected(code)
               /\ ctx.message # ""
               /\ \E b \in BOOLEAN :
                    ctx.message \in
                      {ParseToken(mw, ctx.req, now, b).err.text, ErrMissingExpField.text,
                       ErrWrongFormatOfExp.text, ErrExpiredToken.text, ErrForbidden.text}

\* a token that lacks exp and whose identity the Authorizator would refuse as
\* well is rejected once, for the missing exp
C22_Witness ==
  /\ InMiddleware /\ ~ExemptPath /\ SignatureValid /\ NotBeforeOK
  /\ "exp" \notin DOMAIN Presented.claims
  /\ mw.Authorizator = "adminOnly"
  /\ Get(Presented.claims, "identity") = JStr("guest")
  /\ Rejected(400)
  /\ ctx.message = ErrMissingExpField.text

\* the middleware failed to locate or to verify a token for the request
LocateOrVerifyFailed == \E b \in BOOLEAN : ParseToken(mw, ctx.req, now, b).err # NoErr

\* c.Get(mw.IdentityKey): nil when the key is not set
ContextIdentity == IF ctx.identitySet THEN ctx.identity ELSE Nil

\* C23: whenever middlewareImpl admits a request that presented a token, the
\* context holds under JWT_PAYLOAD exactly the verified claim set of that
\* token and under IdentityKey what IdentityHandler returned (the claim named
\* IdentityKey; the key is left unset when that is nil); a request rejected
\* during locate or verify has neither key set.
C23_PublishedClaims ==
  /\ (InMiddleware /\ Admitted /\ Presented # EmptyToken)
       => /\ Verifies
          /\ ctx.payloadSet
          /\ ctx.payload = [k \in DOMAIN Presented.claims |-> Decode(Presented.claims[k])]
          /\ ContextIdentity = Get(ctx.payload, mw.IdentityKey)
          /\ ctx.identitySet <=> mw.IdentityKey \in DOMAIN Presented.claims
  /\ (InMiddleware /\ ctx.unauthorized > 0 /\ LocateOrVerifyFailed)
       => (~ctx.payloadSet /\ ~ctx.identitySet)

C23_Witness ==
  /\ InMiddleware /\ ~ExemptPath /\ Admitted
  /\ mw.Authorizator = "adminOnly"
  /\ "nbf" \in DOMAIN Presented.claims
  /\ ctx.payloadSet /\ ctx.identitySet
  /\ ctx.identity = Str("admin")
  /\ ctx.payload["exp"] = Float64(ClaimTime)

\* the message the rejection carries
RejectedWith(code, e) == Rejected(code) /\ ctx.message = e.text

\* exp values of a claim set that are no float64: a string, an integer
NonFloatExps == {Str("soon"), Int64(MaxTime)}

\* C24: on a non-exempt path, claim validation of a verified token checks in
\* this order and stops at the first failure: exp absent -> MissingExpField
\* with 400; exp present but no float64 -> WrongFormatOfExp with 400; exp
\* strictly less than now -> ExpiredToken with 401; a token whose exp equals
\* the current second passes on to publication and authorization.
C24_ExpValidationOrder ==
  /\ (InMiddleware /\ ~ExemptPath /\ Presented # EmptyToken /\ ~LocateOrVerifyFailed)
       => LET exp == Get(DecodeClaims(Presented.claims), "exp")
          IN /\ exp = Nil => RejectedWith(400, ErrMissingExpField)
             /\ (exp # Nil /\ exp.t # "float64") => RejectedWith(400, ErrWrongFormatOfExp)
             /\ (exp.t = "float64" /\ exp.n < now) => RejectedWith(401, ErrExpiredToken)
             /\ (exp.t = "float64" /\ exp.n >= now)
                  => (ctx.payloadSet /\ (Admitted \/ RejectedWith(403, ErrForbidden)))
  /\ (InMiddleware /\ ~ExemptPath)
       => \A v \in NonFloatExps :
            LET claims == Put(DecodeClaims(Presented.claims), "exp", v)
                c == ValidateClaims(mw, Start("middlewareImpl", ctx.req), claims, FALSE, now)
            IN /\ c.unauthorized = 1 /\ c.next = 0 /\ ~c.panicked /\ ~c.payloadSet
               /\ c.code = 400 /\ c.message = ErrWrongFormatOfExp.text

\* a token presented in the very second of its exp passes
C24_Witness ==
  /\ InMiddleware /\ ~ExemptPath /\ Presented # EmptyToken /\ ~LocateOrVerifyFailed
  /\ HasNumber(Presented, "exp")
  /\ Presented.claims["exp"].n = now
  /\ Admitted /\ ctx.payloadSet

\* the header value is TokenHeadName, one space and a non-empty token
WellShapedHeader ==
  /\ ctx.req.header.n = 2
  /\ ctx.req.header.head = mw.TokenHeadName
  /\ ctx.req.header.tok # EmptyToken

\* C25: jwtFromHeader succeeds only when the header value is exactly
\* TokenHeadName (case-sensitive), one space and a non-empty token, and
\* returns that token; an absent or empty header fails with EmptyAuthHeader,
\* every other value with InvalidAuthHeader, so the locator never reports
\* success with an empty token string.
C25_HeaderShape ==
  ((InMiddleware \/ InRefresh) /\ Configured("header"))
    => LET r == jwtFromHeader(mw, ctx.req)
       IN /\ r.err = NoErr <=> WellShapedHeader
          /\ r.err = NoErr => r.token = ctx.req.header.tok
          /\ ctx.req.header.n = 0 => r.err = ErrEmptyAuthHeader
          /\ (ctx.req.header.n # 0 /\ ~WellShapedHeader) => r.err = ErrInvalidAuthHeader
          /\ ~(r.err = NoErr /\ r.token = EmptyToken)
          /\ ~(Locate(mw, ctx.req).err = NoErr /\ Locate(mw, ctx.req).token = EmptyToken)

\* the presented token is well formed and declares another algorithm than
\* the configured one
AlgMismatch == Presented.kind = "jwt" /\ Presented.alg # mw.SigningAlgorithm

\* C12: a token whose header declares a signing algorithm different from the
\* configured SigningAlgorithm is never verified, under every configuration
\* (KeyFunc included): ParseToken and ParseTokenString fail with
\* InvalidSigningAlgorithm, the middleware rejects the request with that
\* message and publishes no claims, and RefreshToken returns no token.
C12_AlgMismatchRejected ==
  /\ ((InMiddleware \/ InRefresh) /\ AlgMismatch)
       => \A b \in BOOLEAN :
            /\ ParseToken(mw, ctx.req, now, b).err.text = ErrInvalidSigningAlgorithm.text
            /\ ParseTokenString(mw, Presented, now, b).err.text = ErrInvalidSigningAlgorithm.text
  /\ (InMiddleware /\ AlgMismatch)
       => (Rejected(401) /\ ctx.message = ErrInvalidSigningAlgorithm.text /\ ~ctx.payloadSet)
  /\ (InRefresh /\ AlgMismatch)
       => (ctx.token = EmptyToken /\ ctx.err.text = ErrInvalidSigningAlgorithm.text)

\* the token string source k of the request yields ("" when it yields none)
SourceToken(k) ==
  IF k = "header"
  THEN (IF ctx.req.header.n = 2 /\ ctx.req.header.head = "Bearer"
        THEN ctx.req.header.tok ELSE EmptyToken)
  ELSE ctx.req[k]

\* source number i is the first of the list that yields a token
FirstYielding(i) ==
  /\ SourceToken(mw.TokenLookup[i]) # EmptyToken
  /\ \A h \in 1..(i - 1) : SourceToken(mw.TokenLookup[h]) = EmptyToken

\* the request that holds the token of source k and nothing else
OnlySource(k) == With1(ctx.req.path, k, ctx.req[k])

\* the handler's outcome, the request it was entered with left aside
Outcome(c) == [c EXCEPT !.req = NoRequest]

\* C14: ParseToken uses the token of the first listed source that yields a
\* non-empty token string: that token is the one located, whatever a source
\* listed after it holds, and the request is handled as if it held that
\* token alone.
C14_FirstSourceWins ==
  (InMiddleware \/ InRefresh)
    => \A i \in 1..Len(mw.TokenLookup) :
         FirstYielding(i)
           => LET k == mw.TokenLookup[i]
                  found == Located(SourceToken(k), NoErr)
              IN /\ Locate(mw, ctx.req) = found
                 /\ \A j \in (i + 1)..Len(mw.TokenLookup) :
                      \A w \in SourceValues(mw, mw.TokenLookup[j], PlainClaims) :
                        Locate(mw, [ctx.req EXCEPT ![mw.TokenLookup[j]] = w]) = found
                 /\ InMiddleware
                      => \E b \in BOOLEAN :
                           Outcome(ctx) =
                             Outcome(MiddlewareFunc(mw, Start("middlewareImpl", OnlySource(k)),
                                                    OnlySource(k), now, b))
                 /\ InRefresh
                      => \E b \in BOOLEAN :
                           Outcome(ctx) =
                             Outcome(RefreshHandler(mw, Start("RefreshHandler", OnlySource(k)),
                                                    OnlySource(k), now, b))

\* the header holds a forged token, the form field after it a good one: the
\* forged one is used and the request rejected
C14_Witness ==
  /\ InMiddleware
  /\ mw.TokenLookup = <<"header", "postform">>
  /\ FirstYielding(1)
  /\ SourceToken("header").sig = "forged"
  /\ ctx.req.postform = GoodToken(mw)
  /\ Rejected(401)
  /\ ctx.message = "signature is invalid"

\* no listed source yields a token string
NoSourceYields == \A i \in 1..Len(mw.TokenLookup) : SourceToken(mw.TokenLookup[i]) = EmptyToken

\* what the source listed last returns for the request
LastSourceResult ==
  FromSource(mw, ctx.req, mw.TokenLookup[Len(mw.TokenLookup)], Located(EmptyToken, NoErr))

\* the configuration with the lookup list in the opposite order
Reversed == [mw EXCEPT !.TokenLookup = <<mw.TokenLookup[2], mw.TokenLookup[1]>>]

C19_NoRuntimeFailure ==
  ((InMiddleware \/ InRefresh) /\ SignatureValid) => ~ctx.panicked

-----------------------------------------------------------------------------
(* Properties of the session issuer, checked under SpecIssuer *)

RefreshSucceeded ==
  /\ InRefresh /\ ~ctx.panicked /\ ctx.err = NoErr /\ ctx.unauthorized = 0
  /\ ctx.code = 200 /\ ctx.token # EmptyToken

WithinWindow == now - Presented.claims["orig_iat"].n <= mw.MaxRefresh

\* the refreshed or issued token is stamped at the current time
Stamped ==
  /\ ctx.token.claims["orig_iat"] = JNum(now)
  /\ ctx.token.claims["exp"] = JNum(now + mw.Timeout)
  /\ ctx.expire = now + mw.Timeout

\* the configuration holds the key its algorithm signs with
HoldsSigningKey == ~(usingPublicKeyAlgo(mw) /\ mw.privKey = "nil")

ParseErrors == {ParseToken(mw, ctx.req, now, b).err : b \in BOOLEAN}

C9_RefreshCopiesClaims ==
  RefreshSucceeded
    => /\ DOMAIN ctx.token.claims = DOMAIN Presented.claims \cup {"exp", "orig_iat"}
       /\ \A k \in DOMAIN Presented.claims \ {"exp", "orig_iat"} :
            ctx.token.claims[k] = Presented.claims[k]
       /\ ctx.token.claims["exp"] = JNum(now + mw.Timeout)
       /\ ctx.token.claims["orig_iat"] = JNum(now)

C9_Witness ==
  /\ RefreshSucceeded
  /\ "nbf" \in DOMAIN Presented.claims
  /\ "exp" \notin DOMAIN Presented.claims
  /\ ctx.token.claims["identity"] = JStr("admin")
  /\ ctx.token.claims["orig_iat"] # Presented.claims["orig_iat"]

Issued == ctx.handler \in {"LoginHandler", "TokenGenerator"} /\ ctx.token # EmptyToken

-----------------------------------------------------------------------------
(* Properties of a session, checked under SpecSession *)

\* the middleware handled the token the client holds, in the second it was issued
PresentedFresh ==
  InMiddleware /\ client.token # EmptyToken /\ Presented = client.token /\ client.at = now

\* C11: a token freshly issued by the middleware and presented immediately
\* through the configured lookup source is admitted by middlewareImpl with the
\* default Authorizator (c.Next is called, nothing is rejected), on exempt and
\* non-exempt paths alike.
C11_FreshTokenAdmitted ==
  (PresentedFresh /\ mw.Authorizator = "default")
    => (Admitted /\ ctx.payloadSet /\ ctx.payload = DecodeClaims(client.token.claims))

\* Go's view of a claim set after a JSON round trip: numbers are float64
AsFloat(c) ==
  [k \in DOMAIN c |-> IF c[k].t \in {"int64", "float64"} THEN Float64(c[k].n) ELSE c[k]]

\* C13: for every claim set signed by signedString, verifying the resulting
\* token with ParseTokenString under the same configuration succeeds and
\* returns the same claim names and values, numbers as floating point; the
\* token signed under a different key never verifies.
C13_SignVerifyRoundTrip ==
  (ctx.handler = "ParseTokenString" /\ client.at = now)
    => /\ ctx.token = client.token
            => (ctx.err = NoErr /\ ctx.parsed /\ ctx.claims = AsFloat(client.claims))
       /\ ctx.token.sig # client.token.sig => ctx.err # NoErr

\* C20: no token obtained from a login at t0 through any sequence of
\* RefreshToken calls is accepted by the middleware later than
\* t0 + MaxRefresh + Timeout.
C20_ValidityBounded ==
  (InMiddleware /\ client.token # EmptyToken /\ Presented = client.token /\ Admitted)
    => now <= client.t0 + mw.MaxRefresh + mw.Timeout

\* C21: with MaxRefresh = 0 tokens are not refreshable: no RefreshToken call
\* returns a token, whenever it is made (the second the token was issued
\* included), and for a token that passes verification the failure is
\* ErrExpiredToken.
C21_NotRefreshable ==
  (InRefresh /\ mw.MaxRefresh = 0)
    => /\ ~RefreshSucceeded
       /\ ctx.token = EmptyToken
       /\ (Verifies /\ NotBeforeOK /\ HasNumber(Presented, "orig_iat") /\ HoldsSigningKey)
            => (ctx.err = ErrExpiredToken /\ Rejected(401))

-----------------------------------------------------------------------------
(* Properties of initialization and of rejection, checked under SpecNew *)

\* New has returned
AfterNew == ctx.handler = "New"

\* a request is being handled or awaited: New returned the middleware
Serving == ctx.handler \notin {"main", "New"}

\* the key data the configuration names for the private and the public key
PrivateKeyData ==
  IF mw.PrivKeyFile = "" THEN mw.PrivKeyBytes
  ELSE IF mw.PrivKeyFile = "priv.pem" THEN "privPEM"
  ELSE IF mw.PrivKeyFile = "enc.pem" THEN "encPEM"
  ELSE "junk"

PublicKeyData ==
  IF mw.PubKeyFile = "" THEN mw.PubKeyBytes
  ELSE IF mw.PubKeyFile = "pub.pem" THEN "pubPEM"
  ELSE "junk"

\* what is wrong with the private key, and with the public key (NoErr: nothing)
PrivateKeyProblem ==
  IF mw.PrivKeyFile = "missing.pem" THEN ErrNoPrivKeyFile
  ELSE IF mw.PrivateKeyPassphrase = "" /\ PrivateKeyData = "privPEM" THEN NoErr
  ELSE IF mw.PrivateKeyPassphrase = "pw" /\ PrivateKeyData = "encPEM" THEN NoErr
  ELSE ErrInvalidPrivKey

PublicKeyProblem ==
  IF mw.PubKeyFile = "missing.pem" THEN ErrNoPubKeyFile
  ELSE IF PublicKeyData = "pubPEM" THEN NoErr
  ELSE ErrInvalidPubKey

\* C15: with no KeyFunc, New fails with ErrMissingSecretKey when the algorithm
\* is symmetric and Key is nil; for RS256 it succeeds only if a valid private
\* key and a valid public key were loaded, and fails otherwise with
\* NoPrivKeyFile / InvalidPrivKey / NoPubKeyFile / InvalidPubKey, the private
\* key being checked first; a failed New returns no middleware, so no request
\* is ever served without the key material.
C15_InitRefusesMissingKeys ==
  /\ (AfterNew /\ ~mw.KeyFunc /\ IsHMAC(mw.SigningAlgorithm))
       => ctx.err = (IF mw.Key = "nil" THEN ErrMissingSecretKey ELSE NoErr)
  /\ (AfterNew /\ ~mw.KeyFunc /\ IsRSA(mw.SigningAlgorithm))
       => /\ ctx.err = (IF PrivateKeyProblem # NoErr THEN PrivateKeyProblem
                        ELSE PublicKeyProblem)
          /\ ctx.err = NoErr => (mw.privKey = "loaded" /\ mw.pubKey = "loaded")
  /\ (Serving /\ ~mw.KeyFunc)
       => IF IsRSA(mw.SigningAlgorithm)
          THEN mw.privKey = "loaded" /\ mw.pubKey = "loaded"
          ELSE mw.Key # "nil"

\* neither key is usable: the error is that of the private key
C15_Witness ==
  /\ AfterNew /\ ~mw.KeyFunc /\ mw.SigningAlgorithm = "RS256"
  /\ mw.PrivKeyFile = "junk.pem"
  /\ mw.PubKeyFile = "missing.pem"
  /\ ctx.err = ErrInvalidPrivKey
  /\ mw.privKey = "nil"

\* C16: New fails when Authenticator is nil, so no initialized middleware
\* ever runs LoginHandler without an Authenticator.
C16_InitRefusesMissingAuthenticator ==
  /\ (AfterNew /\ mw.Authenticator = "nil") => ctx.err = ErrMissingAuthenticatorFunc
  /\ ctx.handler = "LoginHandler" => mw.Authenticator # "nil"

\* C28: every middleware for which New succeeded holds the key material that
\* signing needs under its algorithm (Key for HS*, privKey for RS*), KeyFunc
\* configured or not, so that LoginHandler after a successful Authenticator
\* call never fails token creation for lack of a key.
C28_InitHoldsSigningKey ==
  /\ Serving
       => IF IsRSA(mw.SigningAlgorithm) THEN mw.privKey = "loaded" ELSE mw.Key # "nil"
  /\ (ctx.handler = "LoginHandler" /\ mw.Authenticator # "nil" /\ ctx.unauthorized = 0)
       => (~ctx.panicked /\ ctx.code = 200 /\ ctx.token # EmptyToken
             /\ ctx.token.sig = GoodSig(mw))

\* C18 as claimed: whenever the middleware rejects a request, the request is
\* marked aborted and no downstream handler runs for it, for every
\* configuration.
C18_RejectedIsAborted ==
  ctx.unauthorized > 0 => (ctx.aborted /\ ctx.downstream = 0)

\* C18 amended: whenever the middleware rejects a request, the challenge
\* header is set and c.Next is not called; the request is marked aborted, and
\* no downstream handler runs for it, exactly when DisabledAbort is not set:
\* with DisabledAbort the chain goes on after the Unauthorized response.
C18_RejectedIsAbortedUnlessDisabled ==
  ctx.unauthorized > 0
    => /\ ctx.wwwAuthenticate
       /\ ctx.next = 0
       /\ ctx.aborted <=> ~mw.DisabledAbort
       /\ InMiddleware => (ctx.downstream = 0 <=> ~mw.DisabledAbort)

\* a rejection by the middleware with and without DisabledAbort
C18_Witness ==
  /\ InMiddleware /\ ctx.unauthorized = 1 /\ ctx.code = 401
  /\ mw.DisabledAbort
  /\ ~ctx.aborted
  /\ ctx.downstream = 1

-----------------------------------------------------------------------------
(* Properties of concurrent requests, checked under SpecConcurrent *)

\* what the handler of worker w leaves when its request is processed alone,
\* with the inputs and the clock readings w had
Alone(w, sigFirst) ==
  LET l == inflight[w]
      h == l.c.handler
  IN CASE h = "middlewareImpl" ->
            LET p == ParseToken(mw, l.c.req, l.t1, sigFirst)
                c0 == AfterGetClaims(mw, Start("middlewareImpl", l.c.req), p)
            IN HandlersChain(middlewareImplFrom(mw, c0, p, l.c.req.path, l.t2))
       [] h = "LoginHandler" ->
            LoginHandler(mw, Start("LoginHandler", NoRequest), l.auth, l.payload, l.t1)
       [] h = "RefreshHandler" ->
            RefreshHandler(mw, Start("RefreshHandler", l.c.req), l.c.req, l.t1, sigFirst)
       [] h = "LogoutHandler" ->
            LogoutHandler(mw, Start("LogoutHandler", NoRequest))

\* every finished request has the outcome it has when processed alone; with
\* one clock reading that is the outcome of MiddlewareFunc
OutcomesAsAlone ==
  \A w \in Workers :
    inflight[w].pc = "done"
      => /\ \E b \in BOOLEAN : inflight[w].c = Alone(w, b)
         /\ (inflight[w].c.handler = "middlewareImpl" /\ inflight[w].t1 = inflight[w].t2)
              => \E b \in BOOLEAN :
                   inflight[w].c =
                     MiddlewareFunc(mw, Start("middlewareImpl", inflight[w].c.req),
                                    inflight[w].c.req, inflight[w].t1, b)

-----------------------------------------------------------------------------
(* Properties of the cookie, checked under SpecCookie *)

\* LoginHandler or RefreshHandler responded a new token
TokenResponded ==
  /\ ctx.handler \in {"LoginHandler", "RefreshHandler"}
  /\ ~ctx.panicked /\ ctx.unauthorized = 0 /\ ctx.code = 200 /\ ctx.token # EmptyToken

\* C26: when SendCookie is set, the cookie emitted by LoginHandler and by
\* RefreshToken carries the newly signed token and has max-age CookieMaxAge
\* in seconds (Timeout when CookieMaxAge was not configured), for every
\* TimeFunc; when SendCookie is not set or the operation fails, no cookie is
\* emitted.
C26_CookieMaxAge ==
  ctx.handler \in {"LoginHandler", "RefreshHandler"}
    => /\ ctx.cookieSet <=> (mw.SendCookie /\ TokenResponded)
       /\ ctx.cookieSet
            => /\ ctx.cookieValue = ctx.token
               /\ ctx.cookieMaxAge = mw.CookieMaxAge
               /\ mw.CookieMaxAge \in {mw.Timeout, TimeoutSecs + 1}

-----------------------------------------------------------------------------
(* Properties of the API handlers, checked under SpecApi *)

\* one of the failures PublishVideo answers with an error
PublishFailure ==
  \/ ctx.query.title = <<>>
  \/ ctx.env.formFile # NoErr
  \/ ctx.env.save # NoErr
  \/ ctx.env.rpc # NoErr

SuccessResponses == {i \in 1..Len(ctx.responses) : ctx.responses[i].err = Errno("Success")}

\* C29: PublishVideo sends exactly one response per request on every path: a
\* parameter error, a form-file error, a save error or an rpc.CreateVideo
\* error each produce a single error response and never a following Success
\* response.
C29_PublishOneResponse ==
  (ctx.handler = "PublishVideo" /\ ~ctx.panicked)
    => /\ Len(ctx.responses) = 1
       /\ PublishFailure => SuccessResponses = {}
       /\ ~PublishFailure => SuccessResponses = {1}

\* the identity taken from the token, -1 when it yields none
TokenIdentity ==
  IF mw.IdentityKey \in DOMAIN ctx.payload /\ ctx.payload[mw.IdentityKey].t = "float64"
  THEN ctx.payload[mw.IdentityKey].n
  ELSE 0 - 1

\* the number a query value denotes: none when it is missing or no numeral
Denoted(s) == {nv[2] : nv \in {x \in Numerals : x[1] = s}}

\* the cases in which FavoriteByUser must not call the RPC service
FavoriteRefused ==
  \/ TokenIdentity = 0 - 1
  \/ Denoted(ctx.query.video_id) = {}
  \/ Denoted(ctx.query.action_type) = {}
  \/ (ctx.query.user_id # <<>> /\ Denoted(ctx.query.user_id) # {TokenIdentity})

\* C30: FavoriteByUser invokes rpc.FavoriteByUser only with request.UserId
\* equal to the identity taken from the token: it makes no RPC call when the
\* token yields no identity (-1), when video_id or action_type is missing or
\* unparsable, or when a supplied user_id differs from the token identity,
\* and in each of those cases it sends exactly one error response.
C30_FavoriteAsTokenUser ==
  ctx.handler = "FavoriteByUser"
    => /\ ~ctx.panicked
       /\ Len(ctx.responses) = 1
       /\ \A i \in 1..Len(ctx.rpcCalls) :
            /\ ctx.rpcCalls[i].UserId = TokenIdentity
            /\ ctx.rpcCalls[i].VideoId \in Denoted(ctx.query.video_id)
            /\ ctx.rpcCalls[i].ActionType \in Denoted(ctx.query.action_type)
       /\ FavoriteRefused => (ctx.rpcCalls = <<>> /\ SuccessResponses = {})
       /\ ~FavoriteRefused => Len(ctx.rpcCalls) = 1

\* user 1's token with user_id=2: refused with IdNotEqualErr, no RPC call
C30_Witness ==
  /\ ctx.handler = "FavoriteByUser"
  /\ TokenIdentity = 1
  /\ ctx.query.user_id = <<"2">>
  /\ Denoted(ctx.query.video_id) # {} /\ Denoted(ctx.query.action_type) # {}
  /\ ctx.env.rpc = NoErr
  /\ ctx.rpcCalls = <<>>
  /\ ctx.responses = <<[err |-> Errno("IdNotEqualErr"), data |-> "nil"]>>

====
